---- MODULE Spec2Model ----
(***************************************************************************)
(* doctrus: dependency resolution (internal/workspace) and the concurrent  *)
(* task runner (internal/cli run command).                                 *)
(*                                                                         *)
(* Strings are sequences of byte values, so that strings.Split,            *)
(* strings.TrimSpace, fmt.Sprintf("%s:%s") and sort.Strings are computed   *)
(* as the Go code computes them.                                           *)
(***************************************************************************)
EXTENDS Integers, Sequences, FiniteSets, TLC

VARIABLES
    config,      \* config.Config.Workspaces, flattened: <<workspace, task>> -> config.Task
    args,        \* the task specs given to `doctrus run`
    flags,       \* the package-level flags forceBuild, skipCache, dryRun
    mainPc,      \* position of runTask (the cobra RunE handler)
    argIdx,      \* index into args of the spec being processed
    found,       \* runSingleTask: workspaces still to run for a spec without workspace
    resolved,    \* result of the last Manager.ResolveDependencies call
    mainErr,     \* error returned by runTask ("nil" while none)
    states,      \* taskRunner.states: taskKey -> taskState
    mu,          \* taskRunner.mu: 0 when free, else the frame holding it
    frames,      \* one record per RunTask call (its goroutine position and locals)
    cacheStore,  \* cache.Manager: the task keys that have a stored TaskState
    startOrder,  \* the task keys handed to Executor.Execute, in order
    pre,         \* config.Pre: the pre-run commands
    preRun,      \* the indexes of the pre-run commands executed, in order
    preRunExecuted, \* CLI.preRunExecuted
    preIdx,      \* ensurePreRunCommands: the iterations its loop has completed
    files,       \* the workspace directory: relative path -> file content
    record,      \* the TaskState the tracker's caller holds (<<>> when none)
    last,        \* what the last tracked run computed and decided
    cacheDir,    \* cache.Manager.cacheDir: file path -> file content
    now,         \* the clock that time.Now and time.Since read
    cacheCall,   \* the last call of the cache.Manager and what it returned
    setKeys      \* the task keys Manager.Set has been called with so far

\* the pre-run commands, and the file system and cache record of the tracked
\* task: left alone by the runner
envVars == <<pre, preRun, preRunExecuted, preIdx, files, record, last,
             cacheDir, now, cacheCall, setKeys>>

vars == <<config, args, flags, mainPc, argIdx, found, resolved, mainErr,
          states, mu, frames, cacheStore, startOrder, envVars>>

(***************************************************************************)
(* Bounds of the model.                                                    *)
(***************************************************************************)
MaxEdges == 4

MaxCallers == 3

MaxRefs == 3

MaxPatterns == 2

(***************************************************************************)
(* Strings.                                                                *)
(***************************************************************************)
COLON == 58

WhiteSpace == {9, 10, 11, 12, 13, 32}

\* fmt.Sprintf("%s:%s", workspaceName, taskName)
TaskKey(workspaceName, taskName) == workspaceName \o <<COLON>> \o taskName

RECURSIVE SplitFrom(_, _, _, _, _)
SplitFrom(s, sep, i, cur, acc) ==
    IF i > Len(s) THEN Append(acc, cur)
    ELSE IF s[i] = sep THEN SplitFrom(s, sep, i + 1, <<>>, Append(acc, cur))
    ELSE SplitFrom(s, sep, i + 1, Append(cur, s[i]), acc)

\* strings.Split(s, ":")
Split(s, sep) == SplitFrom(s, sep, 1, <<>>, <<>>)

RECURSIVE TrimLeft(_)
TrimLeft(s) ==
    IF s # <<>> /\ Head(s) \in WhiteSpace THEN TrimLeft(Tail(s)) ELSE s

RECURSIVE TrimRight(_)
TrimRight(s) ==
    IF s # <<>> /\ s[Len(s)] \in WhiteSpace
    THEN TrimRight(SubSeq(s, 1, Len(s) - 1)) ELSE s

\* strings.TrimSpace(s)
TrimSpace(s) == TrimRight(TrimLeft(s))

RECURSIVE StrLessFrom(_, _, _)
StrLessFrom(s, t, i) ==
    IF i > Len(s) THEN i <= Len(t)
    ELSE IF i > Len(t) THEN FALSE
    ELSE IF s[i] < t[i] THEN TRUE
    ELSE IF s[i] > t[i] THEN FALSE
    ELSE StrLessFrom(s, t, i + 1)

\* Go's s < t on strings: bytewise lexicographic order
StrLess(s, t) == StrLessFrom(s, t, 1)

RECURSIVE InsertSorted(_, _)
InsertSorted(x, q) ==
    IF q = <<>> THEN <<x>>
    ELSE IF StrLess(x, Head(q)) THEN <<x>> \o q
    ELSE <<Head(q)>> \o InsertSorted(x, Tail(q))

RECURSIVE SortStrings(_)
\* sort.Strings(queue)
SortStrings(q) ==
    IF q = <<>> THEN <<>> ELSE InsertSorted(Head(q), SortStrings(Tail(q)))

RECURSIVE SetToSeq(_)
\* the elements of a finite set in some order (Go's map iteration order)
SetToSeq(S) ==
    IF S = {} THEN <<>>
    ELSE LET x == CHOOSE y \in S : TRUE IN <<x>> \o SetToSeq(S \ {x})

Range(q) == {q[i] : i \in 1..Len(q)}

(***************************************************************************)
(* Configuration (internal/config).                                        *)
(***************************************************************************)
\* Config.GetTask: the second result
TaskExists(workspaceName, taskName) == <<workspaceName, taskName>> \in DOMAIN config

\* Config.GetTask: the first result
GetTask(workspaceName, taskName) == config[<<workspaceName, taskName>>]

\* the names of config.Workspaces
Workspaces == {wt[1] : wt \in DOMAIN config}

(***************************************************************************)
(* Dependency resolution (internal/workspace Manager).                     *)
(***************************************************************************)
\* Go map read: the zero value (an empty slice) for a missing key
MapGet(m, k) == IF k \in DOMAIN m THEN m[k] ELSE <<>>

\* Go map write m[k] = v
MapPut(m, k, v) == [x \in DOMAIN m \cup {k} |-> IF x = k THEN v ELSE m[x]]

\* Manager.ResolveTaskExecution: the error result (workspace and task lookup)
ResolveTaskExecutionErr(workspaceName, taskName) ==
    IF workspaceName \notin Workspaces THEN "workspace not found"
    ELSE IF ~TaskExists(workspaceName, taskName) THEN "task not found"
    ELSE "nil"

\* faulty variant of ParseDependency: parts after the second are ignored
ParseDependencyLenient(dep, currWorkspace) ==
    LET depParts == Split(dep, COLON) IN
    IF Len(depParts) = 1 THEN <<currWorkspace, depParts[1]>>
    ELSE <<depParts[1], depParts[2]>>

\* buildDependencyGraph, parsing of one dependency specification:
\* the <<workspace, task>> it names, or <<>> when it has more than one separator
ParseDependency(dep, currWorkspace) ==
    LET depParts == Split(dep, COLON) IN
    IF Len(depParts) = 1 THEN <<currWorkspace, depParts[1]>>
    ELSE IF Len(depParts) = 2 THEN <<depParts[1], depParts[2]>>
    ELSE <<>>

\* faulty variant of AddEdge: the edge is recorded from the task to its
\* dependency
AddEdgeReversed(depKey, currentKey, visited, st) ==
    [st EXCEPT !.graph = MapPut(st.graph, currentKey,
                                Append(MapGet(st.graph, currentKey), depKey)),
               !.indegrees = MapPut(st.indegrees, depKey,
                                    IF depKey \in DOMAIN st.indegrees
                                    THEN st.indegrees[depKey] + 1 ELSE 1),
               !.queue = IF depKey \in visited THEN st.queue
                         ELSE Append(st.queue, depKey)]

\* faulty variant of AddEdge: an edge that is already there is not added
\* again, the indegree is incremented all the same
AddEdgeOnce(depKey, currentKey, visited, st) ==
    [st EXCEPT !.graph = MapPut(st.graph, depKey,
                                IF currentKey \in Range(MapGet(st.graph, depKey))
                                THEN MapGet(st.graph, depKey)
                                ELSE Append(MapGet(st.graph, depKey), currentKey)),
               !.indegrees = MapPut(st.indegrees, currentKey,
                                    st.indegrees[currentKey] + 1),
               !.queue = IF depKey \in visited THEN st.queue
                         ELSE Append(st.queue, depKey)]

\* buildDependencyGraph: the edge and indegree bookkeeping for one dependency
\* of currentKey, and its enqueueing when not visited
AddEdge(depKey, currentKey, visited, st) ==
    [st EXCEPT !.graph = MapPut(st.graph, depKey,
                                Append(MapGet(st.graph, depKey), currentKey)),
               !.indegrees = MapPut(st.indegrees, currentKey,
                                    st.indegrees[currentKey] + 1),
               !.queue = IF depKey \in visited THEN st.queue
                         ELSE Append(st.queue, depKey)]

RECURSIVE ProcessDependencies(_, _, _, _, _, _)
\* buildDependencyGraph: the loop over task.DependsOn, from index i
ProcessDependencies(deps, i, currWorkspace, currentKey, visited, st) ==
    IF i > Len(deps) THEN st
    ELSE LET wt == ParseDependency(deps[i], currWorkspace) IN
         IF wt = <<>> THEN [st EXCEPT !.err = "invalid dependency format"]
         ELSE IF ~TaskExists(wt[1], wt[2])
         THEN [st EXCEPT !.err = "dependency not found"]
         ELSE ProcessDependencies(deps, i + 1, currWorkspace, currentKey, visited,
                  AddEdge(TaskKey(wt[1], wt[2]), currentKey, visited, st))

RECURSIVE BuildLoop(_, _)
\* buildDependencyGraph: the loop over the BFS queue
BuildLoop(visited, st) ==
    IF st.queue = <<>> \/ st.err # "nil" THEN st
    ELSE LET currentKey == Head(st.queue)
             st1 == [st EXCEPT !.queue = Tail(st.queue)]
             parts == Split(currentKey, COLON)
         IN IF currentKey \in visited THEN BuildLoop(visited, st1)
            ELSE IF Len(parts) # 2
            THEN [st1 EXCEPT !.err = "invalid task key format"]
            ELSE IF ~TaskExists(parts[1], parts[2])
            THEN [st1 EXCEPT !.err = "task not found"]
            ELSE LET st2 == IF currentKey \in DOMAIN st1.indegrees THEN st1
                            ELSE [st1 EXCEPT !.indegrees =
                                      MapPut(st1.indegrees, currentKey, 0)]
                 IN BuildLoop(visited \cup {currentKey},
                        ProcessDependencies(GetTask(parts[1], parts[2]).DependsOn,
                            1, parts[1], currentKey,
                            visited \cup {currentKey}, st2))

\* Manager.buildDependencyGraph: [err, graph, indegrees] (queue is left empty)
buildDependencyGraph(workspaceName, taskName) ==
    BuildLoop({}, [queue |-> <<TaskKey(workspaceName, taskName)>>,
                   graph |-> <<>>, indegrees |-> <<>>, err |-> "nil"])

RECURSIVE DecrementDependentsEager(_, _, _)
\* faulty variant of DecrementDependents: a dependent is enqueued at every decrement,
\* not only when its indegree reaches 0
DecrementDependentsEager(dependents, queue, indegrees) ==
    IF dependents = <<>> THEN [queue |-> queue, indegrees |-> indegrees]
    ELSE LET dependent == Head(dependents)
             d == indegrees[dependent] - 1
         IN DecrementDependentsEager(Tail(dependents),
                Append(queue, dependent),
                [indegrees EXCEPT ![dependent] = d])

RECURSIVE DecrementDependents(_, _, _)
\* topologicalSort: the loop over graph[currentKey] (dependents is what is
\* left of it); st = [queue, indegrees]
DecrementDependents(dependents, queue, indegrees) ==
    IF dependents = <<>> THEN [queue |-> queue, indegrees |-> indegrees]
    ELSE LET dependent == Head(dependents)
             d == indegrees[dependent] - 1
         IN DecrementDependents(Tail(dependents),
                IF d = 0 THEN Append(queue, dependent) ELSE queue,
                [indegrees EXCEPT ![dependent] = d])

\* topologicalSort: the queue before the loop, every task of indegree 0
\* (in map iteration order; the loop sorts the queue before each dequeue)
ZeroIndegree(indegrees) ==
    SetToSeq({task \in DOMAIN indegrees : indegrees[task] = 0})

\* faulty variant of SortQueue: the queue is left in arrival order
SortQueueNone(queue) == queue

\* topologicalSort: "Sort queue for deterministic ordering"
SortQueue(queue) == SortStrings(queue)

RECURSIVE SortLoop(_, _, _, _)
\* topologicalSort: the loop over the queue; [err, result]
SortLoop(graph, queue, indegrees, result) ==
    IF queue = <<>> THEN [err |-> "nil", result |-> result]
    ELSE LET sorted == SortQueue(queue)
             currentKey == Head(sorted)
             parts == Split(currentKey, COLON)
         IN IF Len(parts) # 2
            THEN [err |-> "invalid task key", result |-> <<>>]
            ELSE IF ResolveTaskExecutionErr(parts[1], parts[2]) # "nil"
            THEN [err |-> "failed to resolve task execution", result |-> <<>>]
            ELSE LET nxt == DecrementDependents(MapGet(graph, currentKey),
                                                Tail(sorted), indegrees)
                 IN SortLoop(graph, nxt.queue, nxt.indegrees,
                             Append(result, currentKey))

\* faulty variant of CycleCheck: the processed count is compared with itself
CycleCheckNever(processedCount, totalTasks) == processedCount # processedCount

\* topologicalSort: "Check for cycles"
CycleCheck(processedCount, totalTasks) == processedCount # totalTasks

\* Manager.topologicalSort: [err, result]
topologicalSort(graph, indegrees) ==
    LET r == SortLoop(graph, ZeroIndegree(indegrees), indegrees, <<>>) IN
    IF r.err # "nil" THEN r
    ELSE IF CycleCheck(Len(r.result), Cardinality(DOMAIN indegrees))
    THEN [err |-> "circular dependency", result |-> <<>>]
    ELSE r

\* Manager.ResolveDependencies: [err, result], result the plan as task keys
ResolveDependencies(workspaceName, taskName) ==
    IF ~TaskExists(workspaceName, taskName)
    THEN [err |-> "task not found", result |-> <<>>]
    ELSE LET g == buildDependencyGraph(workspaceName, taskName) IN
         IF g.err # "nil" THEN [err |-> g.err, result |-> <<>>]
         ELSE topologicalSort(g.graph, g.indegrees)


(***************************************************************************)
(* The run command (internal/cli): errors, flags, helpers.                 *)
(***************************************************************************)
\* the nil error
NoErr == [kind |-> "nil", key |-> <<>>, n |-> 0]

\* an error value; key and n (the attempt that produced it) tell two error
\* objects of the same kind apart
MkErr(kind, key, n) == [kind |-> kind, key |-> key, n |-> n]

\* isTaskParallel
isTaskParallel(task) == task.Parallel = "true"

\* faulty variant of isParallelCompound: the parallel flag alone decides
isParallelCompoundByFlag(task) == isTaskParallel(task)

\* isParallelCompound
isParallelCompound(task) == Len(task.Command) = 0 /\ isTaskParallel(task)

\* parseTaskSpec
parseTaskSpec(taskSpec) ==
    LET parts == Split(taskSpec, COLON) IN
    IF Len(parts) = 1 THEN <<<<>>, parts[1]>> ELSE <<parts[1], parts[2]>>

RECURSIVE CollectFrom(_, _, _, _)
\* collectDependencies: the loop over task.DependsOn; [err, deps]
CollectFrom(currentWorkspace, dependsOn, i, deps) ==
    IF i > Len(dependsOn) THEN [err |-> "nil", deps |-> deps]
    ELSE LET dep == TrimSpace(dependsOn[i])
             parts == Split(dep, COLON)
         IN IF dep = <<>> THEN CollectFrom(currentWorkspace, dependsOn, i + 1, deps)
            ELSE IF Len(parts) > 2
            THEN [err |-> "invalid dependency format", deps |-> <<>>]
            ELSE CollectFrom(currentWorkspace, dependsOn, i + 1,
                     Append(deps, IF Len(parts) = 2 THEN <<parts[1], parts[2]>>
                                  ELSE <<currentWorkspace, dep>>))

\* faulty variant of collectDependencies: the loop ends after the first
\* entry of depends_on
collectDependenciesFirst(currentWorkspace, task) ==
    CollectFrom(currentWorkspace,
                SubSeq(task.DependsOn, 1, IF task.DependsOn = <<>> THEN 0 ELSE 1),
                1, <<>>)

\* CLI.collectDependencies
collectDependencies(currentWorkspace, task) ==
    CollectFrom(currentWorkspace, task.DependsOn, 1, <<>>)

\* how often Executor.Execute was called for a task key
ExecCount(taskKey) ==
    Cardinality({i \in 1..Len(startOrder) : startOrder[i] = taskKey})

(***************************************************************************)
(* taskRunner: one frame per RunTask call.                                 *)
(***************************************************************************)
\* a RunTask(ctx, workspaceName, taskName, triggeredByCompound) call about to
\* start, made by frame parent (0: runTaskInWorkspace); async when it runs in
\* a goroutine of runDependenciesParallel; owner once it has claimed the key
NewFrame(workspaceName, taskName, triggeredByCompound, parent, async) ==
    [ws |-> workspaceName, task |-> taskName,
     key |-> TaskKey(workspaceName, taskName),
     compound |-> triggeredByCompound, parent |-> parent, async |-> async,
     pc |-> "lock", owner |-> FALSE, deps |-> <<>>, idx |-> 1, callee |-> 0,
     err |-> NoErr, ret |-> NoErr, errCh |-> <<>>,
     prev |-> "unread", decision |-> "none", result |-> <<>>,
     computed |-> <<>>, stored |-> <<>>]

Frames == 1..Len(frames)

\* faulty variant of Exists: only a Completed entry counts, an attempt in flight is
\* not seen
ExistsOnlyWhenDone(taskKey) == taskKey \in DOMAIN states /\ states[taskKey].done

\* RunTask: `state, exists := r.states[taskKey]`
Exists(taskKey) == taskKey \in DOMAIN states

\* RunTask: the taskState a claiming caller stores
ClaimedState == [running |-> TRUE, done |-> FALSE, err |-> NoErr]

\* faulty variant of CompletedState: state.err is not assigned
CompletedStateNoErr(err) == [running |-> FALSE, done |-> TRUE, err |-> NoErr]

\* RunTask: the taskState after the owner's execute returned err
CompletedState(err) == [running |-> FALSE, done |-> TRUE, err |-> err]

\* RunTask: r.mu.Lock() on entry
RunTaskLock(f) ==
    /\ frames[f].pc = "lock"
    /\ mu = 0
    /\ mu' = f
    /\ frames' = [frames EXCEPT ![f].pc = "check"]
    /\ UNCHANGED <<envVars, config, args, flags, mainPc, argIdx, found, resolved, mainErr,
                   states, cacheStore, startOrder>>

\* RunTask: the state exists and is running: state.cond.Wait() releases the
\* mutex and suspends the caller
RunTaskWait(f) ==
    /\ frames[f].pc = "check"
    /\ mu = f
    /\ Exists(frames[f].key)
    /\ states[frames[f].key].running
    /\ mu' = 0
    /\ frames' = [frames EXCEPT ![f].pc = "wait"]
    /\ UNCHANGED <<envVars, config, args, flags, mainPc, argIdx, found, resolved, mainErr,
                   states, cacheStore, startOrder>>

\* RunTask: cond.Wait() returns after a Broadcast once it has the mutex again
RunTaskWake(f) ==
    /\ frames[f].pc = "woken"
    /\ mu = 0
    /\ mu' = f
    /\ frames' = [frames EXCEPT ![f].pc = "check"]
    /\ UNCHANGED <<envVars, config, args, flags, mainPc, argIdx, found, resolved, mainErr,
                   states, cacheStore, startOrder>>

\* faulty variant of RunTaskStored: a caller that finds a stored failure claims the
\* key again and retries
RunTaskStoredRetry(f) ==
    /\ frames[f].pc = "check"
    /\ mu = f
    /\ frames[f].key \in DOMAIN states
    /\ ~states[frames[f].key].running
    /\ mu' = 0
    /\ IF states[frames[f].key].err # NoErr
       THEN /\ states' = [states EXCEPT ![frames[f].key] =
                             [running |-> TRUE, done |-> FALSE, err |-> NoErr]]
            /\ frames' = [frames EXCEPT ![f].pc = "execute", ![f].owner = TRUE]
       ELSE /\ frames' = [frames EXCEPT ![f].pc = "done",
                                        ![f].ret = states[frames[f].key].err]
            /\ UNCHANGED states
    /\ UNCHANGED <<envVars, config, args, flags, mainPc, argIdx, found, resolved, mainErr,
                   cacheStore, startOrder>>

\* faulty variant of RunTaskStored: the stored error is read without the
\* loop on state.running
RunTaskStoredEarly(f) ==
    /\ frames[f].pc = "check"
    /\ mu = f
    /\ Exists(frames[f].key)
    /\ mu' = 0
    /\ frames' = [frames EXCEPT ![f].pc = "done",
                                ![f].ret = states[frames[f].key].err]
    /\ UNCHANGED <<envVars, config, args, flags, mainPc, argIdx, found, resolved, mainErr,
                   states, cacheStore, startOrder>>

\* RunTask: the state exists and is not running: return its stored error
RunTaskStored(f) ==
    /\ frames[f].pc = "check"
    /\ mu = f
    /\ Exists(frames[f].key)
    /\ ~states[frames[f].key].running
    /\ mu' = 0
    /\ frames' = [frames EXCEPT ![f].pc = "done",
                                ![f].ret = states[frames[f].key].err]
    /\ UNCHANGED <<envVars, config, args, flags, mainPc, argIdx, found, resolved, mainErr,
                   states, cacheStore, startOrder>>

\* faulty variant of RunTaskClaim: the mutex is kept while execute runs
RunTaskClaimLocked(f) ==
    /\ frames[f].pc = "check"
    /\ mu = f
    /\ ~Exists(frames[f].key)
    /\ states' = MapPut(states, frames[f].key, ClaimedState)
    /\ frames' = [frames EXCEPT ![f].pc = "execute", ![f].owner = TRUE]
    /\ UNCHANGED <<envVars, config, args, flags, mainPc, argIdx, found, resolved, mainErr,
                   mu, cacheStore, startOrder>>

\* RunTask: no state exists: create it running, unlock, go on to execute
RunTaskClaim(f) ==
    /\ frames[f].pc = "check"
    /\ mu = f
    /\ ~Exists(frames[f].key)
    /\ states' = MapPut(states, frames[f].key, ClaimedState)
    /\ mu' = 0
    /\ frames' = [frames EXCEPT ![f].pc = "execute", ![f].owner = TRUE]
    /\ UNCHANGED <<envVars, config, args, flags, mainPc, argIdx, found, resolved, mainErr,
                   cacheStore, startOrder>>

\* RunTask: r.mu.Lock() after execute returned
RunTaskRelock(f) ==
    /\ frames[f].pc = "complete"
    /\ mu = 0
    /\ mu' = f
    /\ frames' = [frames EXCEPT ![f].pc = "store"]
    /\ UNCHANGED <<envVars, config, args, flags, mainPc, argIdx, found, resolved, mainErr,
                   states, cacheStore, startOrder>>

\* faulty variant of Broadcast: one caller waiting on the key's condition
\* is woken, as by cond.Signal()
BroadcastSignal(fs, taskKey) ==
    LET waiting == {g \in DOMAIN fs : fs[g].pc = "wait" /\ fs[g].key = taskKey}
    IN [g \in DOMAIN fs |->
           IF g \in waiting /\ \A h \in waiting : g <= h
           THEN [fs[g] EXCEPT !.pc = "woken"] ELSE fs[g]]

\* state.cond.Broadcast(): every caller waiting on the key's condition is woken
Broadcast(fs, taskKey) ==
    [g \in DOMAIN fs |->
        IF fs[g].pc = "wait" /\ fs[g].key = taskKey
        THEN [fs[g] EXCEPT !.pc = "woken"] ELSE fs[g]]

\* faulty variant of StoreResult: the entry is removed when the attempt ends
StoreResultForget(m, taskKey, err) == [k \in DOMAIN m \ {taskKey} |-> m[k]]

\* RunTask: state.running = false; state.done = true; state.err = err
StoreResult(m, taskKey, err) == [m EXCEPT ![taskKey] = CompletedState(err)]

\* RunTask: record the result, Broadcast, unlock, return err
RunTaskStore(f) ==
    /\ frames[f].pc = "store"
    /\ mu = f
    /\ states' = StoreResult(states, frames[f].key, frames[f].err)
    /\ mu' = 0
    /\ frames' = Broadcast([frames EXCEPT ![f].pc = "done",
                                          ![f].ret = frames[f].err],
                           frames[f].key)
    /\ UNCHANGED <<envVars, config, args, flags, mainPc, argIdx, found, resolved, mainErr,
                   cacheStore, startOrder>>


\* the frame f with its execute call returning err (RunTask goes on to lock)
Returning(f, err) == [frames EXCEPT ![f].pc = "complete", ![f].err = err]

\* taskRunner.execute, up to the branch on the dependencies
execute(f) ==
    /\ frames[f].pc = "execute"
    /\ LET fr == frames[f]
           resErr == ResolveTaskExecutionErr(fr.ws, fr.task)
           task == GetTask(fr.ws, fr.task)
           col == collectDependencies(fr.ws, task)
       IN frames' =
            IF resErr # "nil" THEN Returning(f, MkErr(resErr, fr.key, 0))
            ELSE IF col.err # "nil" THEN Returning(f, MkErr(col.err, fr.key, 0))
            ELSE IF Len(col.deps) > 0
            THEN [frames EXCEPT ![f].deps = col.deps, ![f].idx = 1,
                     ![f].pc = IF isParallelCompound(task) THEN "spawn" ELSE "seq"]
            ELSE [frames EXCEPT ![f].pc = "runExecution"]
    /\ UNCHANGED <<envVars, config, args, flags, mainPc, argIdx, found, resolved, mainErr,
                   states, mu, cacheStore, startOrder>>

\* execute: triggeredByCompound || len(execution.Task.Command) == 0
childCompoundContext(f) ==
    frames[f].compound \/ Len(GetTask(frames[f].ws, frames[f].task).Command) = 0

\* execute, sequential branch: the call r.RunTask(dep) for deps[idx]
executeCallDependency(f) ==
    /\ frames[f].pc = "seq"
    /\ LET dep == frames[f].deps[frames[f].idx] IN
       frames' = Append([frames EXCEPT ![f].pc = "called",
                                       ![f].callee = Len(frames) + 1],
                        NewFrame(dep[1], dep[2], childCompoundContext(f), f, FALSE))
    /\ UNCHANGED <<envVars, config, args, flags, mainPc, argIdx, found, resolved, mainErr,
                   states, mu, cacheStore, startOrder>>

\* faulty variant of AfterDependency: the error of the call is ignored
AfterDependencyIgnore(fr, err) ==
    [fr EXCEPT !.idx = fr.idx + 1,
               !.pc = IF fr.idx + 1 > Len(fr.deps) THEN "runExecution" ELSE "seq"]

\* faulty variant of AfterDependency: an error leaves the loop (break) instead of
\* returning from execute
AfterDependencyBreak(fr, err) ==
    IF err # NoErr THEN [fr EXCEPT !.pc = "runExecution"]
    ELSE [fr EXCEPT !.idx = fr.idx + 1,
                    !.pc = IF fr.idx + 1 > Len(fr.deps) THEN "runExecution"
                           ELSE "seq"]

\* execute, sequential branch: where the loop goes after the call for
\* deps[idx] returned err
AfterDependency(fr, err) ==
    IF err # NoErr THEN [fr EXCEPT !.pc = "complete", !.err = err]
    ELSE [fr EXCEPT !.idx = fr.idx + 1,
                    !.pc = IF fr.idx + 1 > Len(fr.deps) THEN "runExecution"
                           ELSE "seq"]

\* execute, sequential branch: r.RunTask(dep) returned
executeDependencyReturned(f) ==
    /\ frames[f].pc = "called"
    /\ frames[frames[f].callee].pc = "done"
    /\ frames' = [frames EXCEPT
                    ![f] = AfterDependency(frames[f], frames[frames[f].callee].ret)]
    /\ UNCHANGED <<envVars, config, args, flags, mainPc, argIdx, found, resolved, mainErr,
                   states, mu, cacheStore, startOrder>>

\* runDependenciesParallel: wg.Add(1); go func() { ... r.RunTask(dep) ... }()
runDependenciesParallelGo(f) ==
    /\ frames[f].pc = "spawn"
    /\ LET dep == frames[f].deps[frames[f].idx] IN
       frames' = Append([frames EXCEPT ![f].idx = frames[f].idx + 1,
                            ![f].pc = IF frames[f].idx + 1 > Len(frames[f].deps)
                                      THEN "wgwait" ELSE "spawn"],
                        NewFrame(dep[1], dep[2], childCompoundContext(f), f, TRUE))
    /\ UNCHANGED <<envVars, config, args, flags, mainPc, argIdx, found, resolved, mainErr,
                   states, mu, cacheStore, startOrder>>

\* runDependenciesParallel, in the goroutine: `errCh <- err` when RunTask
\* returned an error, then the deferred wg.Done()
GoroutineExit(c) ==
    /\ frames[c].async
    /\ frames[c].pc = "done"
    /\ LET p == frames[c].parent IN
       frames' = [frames EXCEPT
                    ![c].pc = "exited",
                    ![p].errCh = IF frames[c].ret # NoErr
                                 THEN Append(frames[p].errCh, frames[c].ret)
                                 ELSE frames[p].errCh]
    /\ UNCHANGED <<envVars, config, args, flags, mainPc, argIdx, found, resolved, mainErr,
                   states, mu, cacheStore, startOrder>>

\* the goroutines a runDependenciesParallel call launched
Goroutines(f) == {c \in Frames : frames[c].parent = f /\ frames[c].async}

\* faulty variant of WaitGroupDone: wg.Wait() does not wait
WaitGroupDoneNoWait(f) == TRUE

\* runDependenciesParallel: wg.Wait() is over when every goroutine has exited
WaitGroupDone(f) == \A c \in Goroutines(f) : frames[c].pc = "exited"

\* faulty variant of SelectErr: the default branch is always taken
SelectErrDefault(errCh) == NoErr

\* runDependenciesParallel: the select on errCh after wg.Wait()
SelectErr(errCh) == IF errCh # <<>> THEN Head(errCh) ELSE NoErr

\* runDependenciesParallel: wg.Wait() returns, select, and execute's branch
\* on the result
runDependenciesParallelJoin(f) ==
    /\ frames[f].pc = "wgwait"
    /\ WaitGroupDone(f)
    /\ frames' = IF SelectErr(frames[f].errCh) # NoErr
                 THEN Returning(f, SelectErr(frames[f].errCh))
                 ELSE [frames EXCEPT ![f].pc = "runExecution"]
    /\ UNCHANGED <<envVars, config, args, flags, mainPc, argIdx, found, resolved, mainErr,
                   states, mu, cacheStore, startOrder>>


(***************************************************************************)
(* CLI.runExecution.  The file system the tracker reads and the cache      *)
(* directory are the environment: what cache.Get and ShouldRunTask can     *)
(* return is drawn from the outcomes the code allows.                      *)
(***************************************************************************)
\* runExecution: what the cache read leaves in previousState: "present" for
\* the stored state, "nil" for no record (and when the cache is not read),
\* "failed" when cache.Get returned an error (the file cannot be read or
\* parsed), which leaves previousState nil too
PreviousStates(task, taskKey) ==
    IF ~flags.skipCache /\ task.Cache
    THEN (IF taskKey \in cacheStore THEN {"present"} ELSE {"nil"}) \cup {"failed"}
    ELSE {"nil"}

\* faulty variant of ShouldRunTask: a cache record that could not be read
\* makes the check fail
ShouldRunTaskStrict(previousState) ==
    IF previousState = "nil" THEN {"run"}
    ELSE IF previousState = "failed" THEN {"error"}
    ELSE {"run", "skip", "error"}

\* Tracker.ShouldRunTask(execution, previousState): (true, nil), (false, nil)
\* or an error; a nil previousState always gives (true, nil)
ShouldRunTask(previousState) ==
    IF previousState \in {"nil", "failed"} THEN {"run"}
    ELSE {"run", "skip", "error"}

\* faulty variant of ShouldRun: the tracker is asked whatever the flags are
ShouldRunIgnoringFlags(previousState) == ShouldRunTask(previousState)

\* runExecution: shouldRun := forceBuild || skipCache, else ShouldRunTask
ShouldRun(previousState) ==
    IF flags.forceBuild \/ flags.skipCache THEN {"run"}
    ELSE ShouldRunTask(previousState)

\* faulty variant of dryRun: the flag is not looked at
dryRunIgnored == FALSE

\* runExecution: `if dryRun`, the package-level flag set by --dry-run
dryRun == flags.dryRun

\* the frames with what runExecution of frame f read from the cache (prev)
\* and how it went on (decision)
Decided(fs, f, prev, decision) ==
    [fs EXCEPT ![f].prev = prev, ![f].decision = decision]

\* runExecution up to the call of Executor.Execute
runExecution(f) ==
    /\ frames[f].pc = "runExecution"
    /\ LET fr == frames[f]
           task == GetTask(fr.ws, fr.task)
       IN IF Len(task.Command) = 0
          THEN /\ frames' = Decided(Returning(f, NoErr), f, "unread", "compound")
               /\ UNCHANGED startOrder
          ELSE \E previousState \in PreviousStates(task, fr.key) :
               \E shouldRun \in ShouldRun(previousState) :
                  IF shouldRun = "error"
                  THEN /\ frames' = Decided(Returning(f,
                                      MkErr("failed to check if task should run",
                                            fr.key, 0)), f, previousState, "error")
                       /\ UNCHANGED startOrder
                  ELSE IF shouldRun = "skip"
                  THEN /\ frames' = Decided(Returning(f, NoErr), f,
                                            previousState, "cached")
                       /\ UNCHANGED startOrder
                  ELSE IF dryRun
                  THEN /\ frames' = Decided(Returning(f, NoErr), f,
                                            previousState, "dryrun")
                       /\ UNCHANGED startOrder
                  ELSE /\ frames' = Decided([frames EXCEPT ![f].pc = "executor"],
                                            f, previousState, "executor")
                       /\ startOrder' = Append(startOrder, fr.key)
    /\ UNCHANGED <<envVars, config, args, flags, mainPc, argIdx, found, resolved, mainErr,
                   states, mu, cacheStore>>

\* an exit code other than zero that a command ends with
EXITCODE == 2

\* docker.Executor.Execute: the results runCommand can produce: cmd.Run
\* returned nil, an *exec.ExitError (the exit code is the command's), or
\* another error (the process could not be started: exit code 1)
ExecutionResults ==
    {[ExitCode |-> 0, Error |-> "nil"],
     [ExitCode |-> EXITCODE, Error |-> "ExitError"],
     [ExitCode |-> 1, Error |-> "other"]}

\* faulty variant of ResultErr: only an exit error of the command counts, a
\* process that could not be started passes for a success
ResultErrExitOnly(result, taskKey) ==
    IF result.Error = "ExitError"
    THEN MkErr("TaskError", taskKey, ExecCount(taskKey))
    ELSE NoErr

\* runExecution: the error returned for an ExecutionResult
ResultErr(result, taskKey) ==
    IF result.Error # "nil" /\ result.ExitCode = 0
    THEN MkErr("execution error", taskKey, ExecCount(taskKey))
    ELSE IF result.ExitCode # 0
    THEN MkErr("TaskError", taskKey, ExecCount(taskKey))
    ELSE NoErr

\* faulty variant of CachesResult: the state of a failed execution is
\* computed and stored too
CachesResultAlways(err, task) == task.Cache

\* runExecution: ComputeTaskState and cache.Set are reached for this result
CachesResult(err, task) == err = NoErr /\ task.Cache

\* runExecution after Executor.Execute returned: the result, and on success
\* of a cached task ComputeTaskState(execution, true) and, when that returned
\* no error, cache.Set (either may fail, which is only a warning)
runExecutionResult(f) ==
    /\ frames[f].pc = "executor"
    /\ \E result \in ExecutionResults :
          LET fr == frames[f]
              err == ResultErr(result, fr.key)
              success == result.ExitCode = 0
          IN IF CachesResult(err, GetTask(fr.ws, fr.task))
             THEN \E computeOk, setOk \in BOOLEAN :
                     /\ frames' = [Returning(f, err) EXCEPT
                           ![f].result = <<result>>,
                           ![f].computed = Append(fr.computed, success),
                           ![f].stored = IF computeOk /\ setOk
                                         THEN Append(fr.stored, success)
                                         ELSE fr.stored]
                     /\ cacheStore' = IF computeOk /\ setOk
                                      THEN cacheStore \cup {fr.key}
                                      ELSE cacheStore
             ELSE /\ frames' = [Returning(f, err) EXCEPT ![f].result = <<result>>]
                  /\ UNCHANGED cacheStore
    /\ UNCHANGED <<envVars, config, args, flags, mainPc, argIdx, found, resolved, mainErr,
                   states, mu, startOrder>>

(***************************************************************************)
(* runTask: ensurePreRunCommands, runSingleTask, runTaskInWorkspace.       *)
(***************************************************************************)
\* faulty variant of AlreadyExecuted: the flag is not consulted
AlreadyExecutedNever(executed) == FALSE

\* ensurePreRunCommands: the guard at its head, a call after the commands
\* have run returns at once
AlreadyExecuted(executed) == executed

\* runTask's call of ensurePreRunCommands, one iteration of its loop over
\* config.Pre at a time: the command is run and may fail, which ends the run.
\* The method may be called a second time on the same CLI, as its unit test
\* does.
ensurePreRunCommands ==
    /\ mainPc = "pre"
    /\ IF preIdx = 0 /\ AlreadyExecuted(preRunExecuted)
       THEN mainPc' = "args" /\ UNCHANGED <<preRun, preRunExecuted, preIdx, mainErr>>
       ELSE IF preIdx = Len(pre)
       THEN \* the loop is over (or config.Pre is empty): the flag is set; the
            \* caller goes on, or calls the method once more on this CLI
            /\ preRunExecuted' = TRUE
            /\ preIdx' = 0
            /\ mainPc' \in {"args", "pre"}
            /\ UNCHANGED <<preRun, mainErr>>
       ELSE LET idx == preIdx + 1 IN
            IF Len(pre[idx].Command) = 0
            THEN /\ mainErr' = MkErr("pre: command is required", <<>>, idx)
                 /\ mainPc' = "failed"
                 /\ UNCHANGED <<preRun, preRunExecuted, preIdx>>
            ELSE /\ preRun' = Append(preRun, idx)
                 /\ UNCHANGED preRunExecuted
                 /\ \E ok \in BOOLEAN :
                       IF ok THEN preIdx' = idx /\ UNCHANGED <<mainPc, mainErr>>
                       ELSE /\ mainErr' = MkErr("pre-run command failed", <<>>, idx)
                            /\ mainPc' = "failed"
                            /\ UNCHANGED preIdx
    /\ UNCHANGED <<pre, files, record, last, cacheDir, now, cacheCall, setKeys, config, args, flags, argIdx, found,
                   resolved, states, mu, frames, cacheStore, startOrder>>


\* findTaskInWorkspaces: the workspaces that have the task
findTaskInWorkspaces(taskName) ==
    {workspaceName \in Workspaces : TaskExists(workspaceName, taskName)}

\* the orders in which a Go map iteration can yield the elements of S
Orders(S) ==
    {q \in [1..Cardinality(S) -> S] : \A i, j \in DOMAIN q : i # j => q[i] # q[j]}

\* runTask: the loop head, and runSingleTask up to its calls of
\* runTaskInWorkspace
runSingleTask ==
    /\ mainPc = "args"
    /\ IF argIdx > Len(args)
       THEN mainPc' = "finished" /\ UNCHANGED <<found, mainErr>>
       ELSE LET spec == parseTaskSpec(args[argIdx]) IN
            IF spec[1] # <<>>
            THEN /\ found' = <<spec>>
                 /\ mainPc' = "workspaces"
                 /\ UNCHANGED mainErr
            ELSE IF findTaskInWorkspaces(spec[2]) = {}
            THEN /\ mainErr' = MkErr("task not found in any workspace",
                                     args[argIdx], 0)
                 /\ mainPc' = "failed"
                 /\ UNCHANGED found
            ELSE /\ \E q \in Orders(findTaskInWorkspaces(spec[2])) :
                       found' = [i \in DOMAIN q |-> <<q[i], spec[2]>>]
                 /\ mainPc' = "workspaces"
                 /\ UNCHANGED mainErr
    /\ UNCHANGED <<envVars, config, args, flags, argIdx, resolved,
                   states, mu, frames, cacheStore, startOrder>>

\* runSingleTask's loop and runTaskInWorkspace: ResolveDependencies, then
\* runner.RunTask(ctx, workspaceName, taskName, false)
runTaskInWorkspace ==
    /\ mainPc = "workspaces"
    /\ IF found = <<>>
       THEN /\ argIdx' = argIdx + 1
            /\ mainPc' = "args"
            /\ UNCHANGED <<resolved, mainErr, frames>>
       ELSE LET r == ResolveDependencies(Head(found)[1], Head(found)[2]) IN
            /\ resolved' = r
            /\ UNCHANGED argIdx
            /\ IF r.err # "nil"
               THEN /\ mainErr' = MkErr(r.err, TaskKey(Head(found)[1], Head(found)[2]), 0)
                    /\ mainPc' = "failed"
                    /\ UNCHANGED frames
               ELSE /\ frames' = Append(frames,
                          NewFrame(Head(found)[1], Head(found)[2], FALSE, 0, FALSE))
                    /\ mainPc' = "running"
                    /\ UNCHANGED mainErr
    /\ UNCHANGED <<envVars, config, args, flags, found, states, mu, cacheStore, startOrder>>

\* the frame of the runner.RunTask call runTaskInWorkspace is waiting for
TopFrame == CHOOSE f \in Frames :
               frames[f].parent = 0 /\ \A g \in Frames : frames[g].parent = 0 => g <= f

\* faulty variant of runTaskReturned: the error is kept and the loops go on
\* with the next target
runTaskReturnedContinue ==
    /\ mainPc = "running"
    /\ frames[TopFrame].pc = "done"
    /\ mainErr' = IF frames[TopFrame].ret # NoErr THEN frames[TopFrame].ret
                  ELSE mainErr
    /\ found' = Tail(found)
    /\ mainPc' = "workspaces"
    /\ UNCHANGED <<envVars, config, args, flags, argIdx, resolved,
                   states, mu, frames, cacheStore, startOrder>>

\* runTaskInWorkspace returns what runner.RunTask returned; on an error
\* runTask returns, else the loops go on
runTaskReturned ==
    /\ mainPc = "running"
    /\ frames[TopFrame].pc = "done"
    /\ IF frames[TopFrame].ret # NoErr
       THEN /\ mainErr' = frames[TopFrame].ret
            /\ mainPc' = "failed"
            /\ UNCHANGED found
       ELSE /\ found' = Tail(found)
            /\ mainPc' = "workspaces"
            /\ UNCHANGED mainErr
    /\ UNCHANGED <<envVars, config, args, flags, argIdx, resolved,
                   states, mu, frames, cacheStore, startOrder>>


(***************************************************************************)
(* Configurations.                                                         *)
(***************************************************************************)
\* workspace and task names
nW == <<119>>

nV == <<118>>

nA == <<97>>

nB == <<98>>

nC == <<99>>

nD == <<100>>

\* a command line (the runner only looks at its length)
Cmd == << <<115, 104>> >>

\* a config.Task
Task(command, dependsOn, cache, par) ==
    [Command |-> command, DependsOn |-> dependsOn, Cache |-> cache, Parallel |-> par]

\* the flag combinations of `doctrus run`
FlagChoices ==
    {[forceBuild |-> fb, skipCache |-> sc, dryRun |-> dr] :
        <<fb, sc, dr>> \in {<<FALSE, FALSE, FALSE>>, <<TRUE, FALSE, FALSE>>,
                            <<FALSE, TRUE, FALSE>>, <<FALSE, FALSE, TRUE>>}}

\* a diamond, top -> {b, c} -> d, with the top task compound and parallel,
\* compound and sequential, or a command task whose parallel flag is ignored
Diamond(topCommand, topParallel) ==
    [tasks |-> (<<nW, nA>> :> Task(topCommand, <<nB, nC>>, FALSE, topParallel))
            @@ (<<nW, nB>> :> Task(Cmd, <<nD>>, TRUE, "unset"))
            @@ (<<nW, nC>> :> Task(Cmd, <<TaskKey(nW, nD)>>, FALSE, "unset"))
            @@ (<<nW, nD>> :> Task(Cmd, <<>>, TRUE, "unset")),
     args |-> <<TaskKey(nW, nA)>>]

\* a parallel compound task that names the same dependency n times
FanOut(n) ==
    [tasks |-> (<<nW, nA>> :> Task(<<>>, [i \in 1..n |-> nB], FALSE, "true"))
            @@ (<<nW, nB>> :> Task(Cmd, <<>>, FALSE, "unset")),
     args |-> <<TaskKey(nW, nA)>>]

\* a command task with three sequential dependencies, one of them shared,
\* across two workspaces, run after one of its dependencies
Chain ==
    [tasks |-> (<<nW, nA>> :> Task(Cmd, <<nB, TaskKey(nV, nC), nD>>, TRUE, "false"))
            @@ (<<nW, nB>> :> Task(Cmd, <<>>, FALSE, "unset"))
            @@ (<<nV, nC>> :> Task(Cmd, <<TaskKey(nW, nB)>>, TRUE, "unset"))
            @@ (<<nW, nD>> :> Task(Cmd, <<>>, FALSE, "unset")),
     args |-> <<TaskKey(nW, nD), TaskKey(nW, nA)>>]

\* a parallel compound over a sequential compound and a command task that
\* share a dependency
Nested ==
    [tasks |-> (<<nW, nA>> :> Task(<<>>, <<nB, nC>>, FALSE, "true"))
            @@ (<<nW, nB>> :> Task(<<>>, <<nD, TaskKey(nV, nA)>>, FALSE, "false"))
            @@ (<<nW, nC>> :> Task(Cmd, <<TaskKey(nV, nA)>>, FALSE, "unset"))
            @@ (<<nW, nD>> :> Task(Cmd, <<>>, FALSE, "unset"))
            @@ (<<nV, nA>> :> Task(Cmd, <<>>, FALSE, "unset")),
     args |-> <<TaskKey(nW, nA)>>]

\* a task spec without workspace that two workspaces have
Bare ==
    [tasks |-> (<<nW, nA>> :> Task(Cmd, <<nB>>, FALSE, "unset"))
            @@ (<<nW, nB>> :> Task(Cmd, <<>>, TRUE, "unset"))
            @@ (<<nV, nA>> :> Task(Cmd, <<TaskKey(nW, nB)>>, FALSE, "unset")),
     args |-> <<nA>>]

\* dependency cycles of length 1, 2 and 3 through the target, a cycle the
\* target only leads to, and a cycle across workspaces; each after a task
\* spec that resolves
Cyclic(n) ==
    [tasks |-> (<<nW, nA>> :> Task(Cmd, IF n = 1 THEN <<nA>>
                                         ELSE IF n = 5 THEN <<TaskKey(nV, nA)>>
                                         ELSE <<nB>>, FALSE, "unset"))
            @@ (<<nW, nB>> :> Task(Cmd, IF n = 2 THEN <<nD, nA>> ELSE <<nC>>,
                                   FALSE, "unset"))
            @@ (<<nW, nC>> :> Task(Cmd, IF n = 3 THEN <<TaskKey(nW, nA)>>
                                         ELSE <<nB>>, FALSE, "unset"))
            @@ (<<nW, nD>> :> Task(Cmd, <<>>, FALSE, "unset"))
            @@ (<<nV, nA>> :> Task(<<>>, <<TaskKey(nW, nD), TaskKey(nW, nA)>>,
                                   FALSE, "true")),
     args |-> <<TaskKey(nW, nD), TaskKey(nW, nA)>>]

\* a command task whose depends_on names its dependencies in another order
\* than the order of their keys
Unsorted ==
    [tasks |-> (<<nW, nA>> :> Task(Cmd, <<nC, nB>>, FALSE, "unset"))
            @@ (<<nW, nB>> :> Task(Cmd, <<>>, FALSE, "unset"))
            @@ (<<nW, nC>> :> Task(Cmd, <<>>, FALSE, "unset")),
     args |-> <<TaskKey(nW, nA)>>]

\* a command task that lists one dependency three times: bare, with its own
\* workspace, and bare again
Repeated ==
    [tasks |-> (<<nW, nA>> :> Task(Cmd, <<nB, TaskKey(nW, nB), nB>>, FALSE, "unset"))
            @@ (<<nW, nB>> :> Task(Cmd, <<>>, TRUE, "unset")),
     args |-> <<TaskKey(nW, nA)>>]

\* config.Pre: none, or two pre-run commands
PreChoices == {<<>>, <<[Command |-> Cmd[1]], [Command |-> Cmd[1]]>>}

\* the configurations and argument lists of the runner specification
RunConfigs ==
    {Diamond(<<>>, "true"), Diamond(<<>>, "unset"), Diamond(Cmd, "true"),
     Chain, Nested, Bare, Unsorted, Repeated}
    \cup {FanOut(n) : n \in 2..MaxCallers}
    \cup {Cyclic(n) : n \in 1..5}

\* the task keys of a configuration that have caching enabled
CachedKeys(tasks) == {TaskKey(wt[1], wt[2]) : wt \in {x \in DOMAIN tasks : tasks[x].Cache}}

\* no call of the cache.Manager made yet
NoCacheCall ==
    [op |-> "none", key |-> <<>>, state |-> <<>>, ttl |-> 0, expired |-> FALSE]

\* no tracker call has been made, or the files have changed since
NoCall == [op |-> "none", prev |-> <<>>, shouldRun |-> FALSE, err |-> FALSE,
           changed |-> <<>>]

\* the runner, the cache and runTask before the first task spec
InitRun ==
    /\ mainPc = "pre"
    /\ preRun = <<>>
    /\ preRunExecuted = FALSE
    /\ preIdx = 0
    /\ files = <<>>
    /\ record = <<>>
    /\ last = NoCall
    /\ cacheDir = <<>>
    /\ now = 0
    /\ cacheCall = NoCacheCall
    /\ setKeys = {}
    /\ argIdx = 1
    /\ found = <<>>
    /\ resolved = [err |-> "nil", result |-> <<>>]
    /\ mainErr = NoErr
    /\ states = <<>>
    /\ mu = 0
    /\ frames = <<>>
    /\ startOrder = <<>>

Init ==
    /\ \E c \in RunConfigs :
          /\ config = c.tasks
          /\ args = c.args
          /\ cacheStore \in {{}, CachedKeys(c.tasks)}
    /\ flags \in FlagChoices
    /\ pre \in PreChoices
    /\ InitRun

Next ==
    \/ ensurePreRunCommands
    \/ runSingleTask
    \/ runTaskInWorkspace
    \/ runTaskReturned
    \/ \E f \in Frames : RunTaskLock(f)
    \/ \E f \in Frames : RunTaskWait(f)
    \/ \E f \in Frames : RunTaskWake(f)
    \/ \E f \in Frames : RunTaskStored(f)
    \/ \E f \in Frames : RunTaskClaim(f)
    \/ \E f \in Frames : RunTaskRelock(f)
    \/ \E f \in Frames : RunTaskStore(f)
    \/ \E f \in Frames : execute(f)
    \/ \E f \in Frames : executeCallDependency(f)
    \/ \E f \in Frames : executeDependencyReturned(f)
    \/ \E f \in Frames : runDependenciesParallelGo(f)
    \/ \E f \in Frames : GoroutineExit(f)
    \/ \E f \in Frames : runDependenciesParallelJoin(f)
    \/ \E f \in Frames : runExecution(f)
    \/ \E f \in Frames : runExecutionResult(f)

Spec == Init /\ [][Next]_vars


(***************************************************************************)
(* Dependency resolution on its own: every configuration of four tasks in  *)
(* two workspaces whose depends_on lists hold at most MaxEdges entries in  *)
(* total; runTask is followed up to its call of runner.RunTask.            *)
(***************************************************************************)
\* the dependency strings a task of workspace ws may list: bare names for
\* its own workspace, "workspace:task" for the other one
RefPool(ws) ==
    {nA, nB} \cup {TaskKey(other, t) : other \in {nW, nV} \ {ws}, t \in {nA, nB}}

\* the depends_on lists of length n of a task of workspace ws
DependsOnLists(ws, n) == [1..n -> RefPool(ws)]

ResolveTasks(d1, d2, d3, d4) ==
    (<<nW, nA>> :> Task(Cmd, d1, FALSE, "unset"))
    @@ (<<nW, nB>> :> Task(Cmd, d2, FALSE, "unset"))
    @@ (<<nV, nA>> :> Task(Cmd, d3, FALSE, "unset"))
    @@ (<<nV, nB>> :> Task(Cmd, d4, FALSE, "unset"))

InitResolve ==
    /\ \E l1 \in 0..MaxEdges : \E l2 \in 0..(MaxEdges - l1) :
       \E l3 \in 0..(MaxEdges - l1 - l2) : \E l4 \in 0..(MaxEdges - l1 - l2 - l3) :
       \E d1 \in DependsOnLists(nW, l1) : \E d2 \in DependsOnLists(nW, l2) :
       \E d3 \in DependsOnLists(nV, l3) : \E d4 \in DependsOnLists(nV, l4) :
          config = ResolveTasks(d1, d2, d3, d4)
    /\ args \in {<<TaskKey(nW, nA)>>, <<TaskKey(nV, nB)>>}
    /\ flags = [forceBuild |-> FALSE, skipCache |-> FALSE, dryRun |-> FALSE]
    /\ cacheStore = {}
    /\ pre = <<>>
    /\ InitRun

NextResolve ==
    \/ ensurePreRunCommands
    \/ runSingleTask
    \/ runTaskInWorkspace

SpecResolve == InitResolve /\ [][NextResolve]_vars


(***************************************************************************)
(* Properties of the runner.                                               *)
(***************************************************************************)
\* the RunTask call of frame f has returned
Returned(f) == frames[f].pc \in {"done", "exited"}

\* the RunTask calls made for a task key, and those among them that claimed it
Callers(taskKey) == {f \in Frames : frames[f].key = taskKey}

Owners(taskKey) == {f \in Callers(taskKey) : frames[f].owner}

\* the task keys a configured task depends on, as the runner collects them
DependencyKeys(wt) ==
    LET deps == collectDependencies(wt[1], config[wt]).deps IN
    {TaskKey(deps[i][1], deps[i][2]) : i \in DOMAIN deps}

\* the key is Completed, with a success or a failure result
Succeeded(taskKey) ==
    Exists(taskKey) /\ states[taskKey].done /\ states[taskKey].err = NoErr

Failed(taskKey) ==
    Exists(taskKey) /\ states[taskKey].done /\ states[taskKey].err # NoErr

\* C1: whatever the interleaving of the RunTask calls made for one task key,
\* at most one of them claims the key and runs execute, the Executor is
\* called at most once for it, once a caller has returned exactly one caller
\* has run execute, and all callers that have returned have returned the
\* same error value (or all nil).
C1_SingleFlight ==
    \A k \in {frames[f].key : f \in Frames} :
        /\ Cardinality(Owners(k)) <= 1
        /\ ExecCount(k) <= 1
        /\ (\E f \in Callers(k) : Returned(f)) => Cardinality(Owners(k)) = 1
        /\ \A f, g \in Callers(k) :
              Returned(f) /\ Returned(g) => frames[f].ret = frames[g].ret

\* C1 witness: three concurrent callers of one key; the owner has returned a
\* failure, a second caller has returned the same failure without running
\* execute, and the third has been woken from its wait on the condition.
C1_Witness ==
    \E f, g, h \in Frames :
        /\ frames[f].key = frames[g].key /\ frames[g].key = frames[h].key
        /\ frames[f].owner /\ Returned(f) /\ frames[f].ret # NoErr
        /\ ~frames[g].owner /\ Returned(g) /\ frames[g].ret = frames[f].ret
        /\ frames[h].pc = "woken"
        /\ ExecCount(frames[f].key) = 1

\* C2: in every reachable state of a run the Executor has been called at
\* most once for every task key of the configuration.
C2_AtMostOnce ==
    \A wt \in DOMAIN config : ExecCount(TaskKey(wt[1], wt[2])) <= 1

\* C2 witness: a key referenced by a sequential compound and, concurrently,
\* by a command task under a parallel fan-out; both callers have returned
\* and its command was executed once.
C2_Witness ==
    /\ \E f, g \in Callers(TaskKey(nV, nA)) :
          /\ f # g /\ Returned(f) /\ Returned(g)
          /\ frames[frames[f].parent].key = TaskKey(nW, nB)
          /\ frames[frames[g].parent].key = TaskKey(nW, nC)
    /\ ExecCount(TaskKey(nV, nA)) = 1

\* C3: a task's command is handed to the Executor, and a task's execute
\* reaches runExecution at all, only when every dependency of the task is
\* Completed with a nil error; Completed results never change, so the
\* dependencies completed before the command started.
C3_DependenciesFirst ==
    \A wt \in DOMAIN config :
        LET k == TaskKey(wt[1], wt[2]) IN
        (\/ k \in Range(startOrder)
         \/ \E f \in Owners(k) : frames[f].pc \in {"runExecution", "executor"})
        => \A d \in DependencyKeys(wt) : Succeeded(d)

\* C3 witness: the parallel compound top of the diamond is past its join and
\* about to run, and the commands of all three tasks below it have been
\* started, b and c each after their sequential dependency d.
C3_Witness ==
    /\ \E f \in Owners(TaskKey(nW, nA)) :
          /\ frames[f].pc = "runExecution"
          /\ isParallelCompound(GetTask(nW, nA))
    /\ {TaskKey(nW, nB), TaskKey(nW, nC), TaskKey(nW, nD)} \subseteq Range(startOrder)

\* C4: when the attempt of a key has ended in failure and its owner has
\* returned, that failure is the key's stored result, every caller of the
\* key that has returned has returned that same failure, and the key has had
\* one attempt only (one owner, at most one Executor call).
C4_FailureShared ==
    \A f \in Frames :
        frames[f].owner /\ Returned(f) /\ frames[f].err # NoErr
        => /\ Failed(frames[f].key)
           /\ states[frames[f].key].err = frames[f].err
           /\ \A g \in Callers(frames[f].key) :
                 Returned(g) => frames[g].ret = frames[f].err
           /\ Owners(frames[f].key) = {f}
           /\ ExecCount(frames[f].key) <= 1

\* C4 witness: a failed key with three callers: the owner, a caller that was
\* blocked on the in-flight attempt and has returned the failure, and a
\* caller that arrived after completion and holds the mutex about to read it.
C4_Witness ==
    \E f, g, h \in Frames :
        /\ frames[f].key = frames[g].key /\ frames[g].key = frames[h].key
        /\ frames[f].owner /\ Returned(f) /\ frames[f].err # NoErr
        /\ ~frames[g].owner /\ Returned(g) /\ frames[g].ret = frames[f].err
        /\ ~frames[h].owner /\ frames[h].pc = "check" /\ mu = h

\* C5: an entry of the state table is created Running, changes only from
\* Running to Completed, and is never removed or changed once Completed; a
\* RunTask call that finds its key Completed returns the stored error and
\* does not run execute.
C5_CompletedIsTerminal ==
    [][/\ \A k \in DOMAIN states :
             /\ k \in DOMAIN states'
             /\ states[k].done => states'[k] = states[k]
             /\ states'[k] # states[k]
                => states[k].running /\ ~states[k].done
                   /\ ~states'[k].running /\ states'[k].done
       /\ \A k \in DOMAIN states' \ DOMAIN states :
             states'[k].running /\ ~states'[k].done
       /\ \A f \in Frames :
             (/\ frames[f].pc = "check" /\ frames'[f].pc # "check"
              /\ Exists(frames[f].key) /\ states[frames[f].key].done)
             => /\ frames'[f].pc = "done"
                /\ frames'[f].ret = states[frames[f].key].err
                /\ ~frames'[f].owner
                /\ startOrder' = startOrder]_vars

\* C5 witness: in a sequential run a second RunTask call for a Completed key
\* has returned the stored result and the command was executed once.
C5_Witness ==
    /\ ~isParallelCompound(GetTask(nW, nA))
    /\ \E f, g \in Callers(TaskKey(nW, nD)) :
          /\ frames[f].owner /\ ~frames[g].owner /\ Returned(g)
          /\ frames[g].ret = states[TaskKey(nW, nD)].err
    /\ ExecCount(TaskKey(nW, nD)) = 1


\* the frames frame f created, as a sequence in creation order
ChildSeq(f) ==
    SelectSeq([i \in 1..Len(frames) |-> i], LAMBDA c : frames[c].parent = f)

\* the task key the i-th depends_on entry of task wt names
DeclaredKey(wt, i) ==
    LET d == ParseDependency(config[wt].DependsOn[i], wt[1]) IN TaskKey(d[1], d[2])

\* C6: a caller that runs its dependencies sequentially makes its RunTask
\* calls in depends_on order, one at a time: its i-th call is for the i-th
\* declared dependency, and when it makes a call every earlier call has
\* returned nil with that dependency Completed; so no call follows a call
\* that returned a failure.
C6_SequentialOrder ==
    \A f \in Frames :
        LET wt == <<frames[f].ws, frames[f].task>>
            ch == ChildSeq(f)
        IN (frames[f].owner /\ wt \in DOMAIN config
            /\ ~isParallelCompound(config[wt]))
           => /\ Len(ch) <= Len(config[wt].DependsOn)
              /\ \A j \in 1..Len(ch) :
                    /\ ~frames[ch[j]].async
                    /\ frames[ch[j]].key = DeclaredKey(wt, j)
                    /\ j < Len(ch) =>
                          /\ Returned(ch[j])
                          /\ frames[ch[j]].ret = NoErr
                          /\ Succeeded(frames[ch[j]].key)
              /\ frames[f].pc = "called" =>
                    /\ Len(ch) = frames[f].idx
                    /\ frames[f].callee = ch[Len(ch)]

\* C6 witness: the task with three sequential dependencies has returned a
\* failure after two calls: the first dependency succeeded, the second one
\* failed, and no call was made for the third.
C6_Witness ==
    \E f \in Owners(TaskKey(nW, nA)) :
        /\ Len(GetTask(nW, nA).DependsOn) = 3
        /\ Returned(f) /\ frames[f].ret # NoErr
        /\ Len(ChildSeq(f)) = 2
        /\ frames[ChildSeq(f)[1]].ret = NoErr
        /\ frames[ChildSeq(f)[2]].ret = frames[f].ret

\* runDependenciesParallel has returned in frame f
PastJoin(f) == frames[f].pc \in {"runExecution", "complete", "store", "done", "exited"}

\* C7: a parallel compound launches one goroutine per dependency, whatever
\* the earlier ones did; once all are launched there is one per declared
\* dependency; runDependenciesParallel returns only when every goroutine has
\* exited, each with the Completed result of its own key (none is cut
\* short), and it returns a failure, one of the goroutines' errors, exactly
\* when some goroutine returned a failure.
C7_ParallelJoin ==
    \A f \in Frames :
        LET wt == <<frames[f].ws, frames[f].task>>
            gs == ChildSeq(f)
        IN (frames[f].owner /\ wt \in DOMAIN config
            /\ isParallelCompound(config[wt]) /\ frames[f].pc # "execute")
           => /\ \A j \in 1..Len(gs) :
                    /\ frames[gs[j]].async
                    /\ frames[gs[j]].key = DeclaredKey(wt, j)
                    /\ Returned(gs[j]) =>
                          /\ states[frames[gs[j]].key].done
                          /\ frames[gs[j]].ret = states[frames[gs[j]].key].err
              /\ frames[f].pc = "spawn" => Len(gs) = frames[f].idx - 1
              /\ frames[f].pc # "spawn" => Len(gs) = Len(config[wt].DependsOn)
              /\ PastJoin(f) =>
                    /\ \A j \in 1..Len(gs) : frames[gs[j]].pc = "exited"
                    /\ (\E j \in 1..Len(gs) : frames[gs[j]].ret # NoErr)
                       <=> (frames[f].pc # "runExecution" /\ frames[f].err # NoErr)
                    /\ frames[f].err # NoErr =>
                          \E j \in 1..Len(gs) : frames[gs[j]].ret = frames[f].err

\* C7 witness: one branch of the fan-out has failed and exited while a
\* sibling's command is still running in the Executor and the parent waits.
C7_Witness ==
    \E f, c, d \in Frames :
        /\ frames[f].pc = "wgwait"
        /\ frames[c].parent = f /\ frames[d].parent = f
        /\ frames[c].pc = "exited" /\ frames[c].ret # NoErr
        /\ frames[d].pc = "executor"

\* C8: while some dependency of a task is Completed with a failure, the
\* task's command has not been handed to the Executor and its execute is not
\* at runExecution; and once the task is Completed its result is a failure,
\* the error of one of its failed dependencies.
C8_FailedDependency ==
    \A wt \in DOMAIN config :
        LET k == TaskKey(wt[1], wt[2])
            failed == {d \in DependencyKeys(wt) : Failed(d)}
        IN failed # {}
           => /\ ExecCount(k) = 0
              /\ \A f \in Owners(k) : frames[f].pc \notin {"runExecution", "executor"}
              /\ (Exists(k) /\ states[k].done)
                 => states[k].err \in {states[d].err : d \in failed}

\* C8 witness: d failed, so b completed with d's error without running, and
\* then a completed with that same error without running.
C8_Witness ==
    /\ Failed(TaskKey(nW, nD))
    /\ Failed(TaskKey(nW, nB))
    /\ Failed(TaskKey(nW, nA))
    /\ TaskKey(nW, nB) \in DependencyKeys(<<nW, nA>>)
    /\ TaskKey(nW, nD) \in DependencyKeys(<<nW, nB>>)
    /\ states[TaskKey(nW, nA)].err = states[TaskKey(nW, nD)].err
    /\ startOrder = <<TaskKey(nW, nD)>>


(***************************************************************************)
(* Properties of dependency resolution.  The dependency relation is        *)
(* defined here from the configuration alone, not from the resolver.       *)
(***************************************************************************)
\* the tasks a configured task names in depends_on (bare names in its own
\* workspace)
DependsOnTasks(wt) ==
    {ParseDependency(config[wt].DependsOn[i], wt[1]) : i \in DOMAIN config[wt].DependsOn}

RECURSIVE Closure(_)
\* the tasks reachable from the tasks S along depends_on, S included
Closure(S) ==
    LET n == S \cup UNION {DependsOnTasks(x) : x \in S \cap DOMAIN config} IN
    IF n = S THEN S ELSE Closure(n)

\* the target and its transitive dependencies
Discovered(target) == Closure({target})

\* some task reachable from the target depends, directly or transitively,
\* on itself
HasCycle(target) ==
    \E x \in Discovered(target) \cap DOMAIN config : x \in Closure(DependsOnTasks(x))

\* the index of the first occurrence of x in the plan (0 when absent)
Position(plan, x) ==
    IF x \in Range(plan) THEN CHOOSE i \in 1..Len(plan) :
                                  plan[i] = x /\ \A j \in 1..(i - 1) : plan[j] # x
    ELSE 0

\* runTaskInWorkspace has called ResolveDependencies for Head(found)
ResolutionDone == mainPc \in {"running", "failed"} /\ found # <<>>

\* C9: when no cycle is reachable from the target, ResolveDependencies
\* returns a plan that holds every task reachable from the target exactly
\* once and every dependency before each of its dependents.
C9_PlanIsTopological ==
    (ResolutionDone /\ ~HasCycle(Head(found)))
    => LET plan == resolved.result
           disc == Discovered(Head(found))
       IN /\ resolved.err = "nil"
          /\ Range(plan) = {TaskKey(x[1], x[2]) : x \in disc}
          /\ Len(plan) = Cardinality(disc)
          /\ \A x \in disc : \A d \in DependsOnTasks(x) :
                Position(plan, TaskKey(d[1], d[2])) < Position(plan, TaskKey(x[1], x[2]))

\* C9 witness: the diamond w:a -> {w:b, v:a} -> v:b resolves to a plan with
\* v:b once and first, before v:a and w:b, and w:a last.
C9_Witness ==
    /\ ResolutionDone
    /\ config[<<nW, nA>>].DependsOn = <<nB, TaskKey(nV, nA)>>
    /\ config[<<nW, nB>>].DependsOn = <<TaskKey(nV, nB)>>
    /\ config[<<nV, nA>>].DependsOn = <<nB>>
    /\ config[<<nV, nB>>].DependsOn = <<>>
    /\ resolved.result = <<TaskKey(nV, nB), TaskKey(nV, nA),
                           TaskKey(nW, nB), TaskKey(nW, nA)>>

\* C10: when a cycle is reachable from a requested target, the run fails at
\* its resolution with the circular-dependency error: runTaskInWorkspace
\* never gets to runner.RunTask for it, and neither the target nor any task
\* that leads to a cycle is ever handed to the Executor.
C10_CycleRejected ==
    /\ (found # <<>> /\ HasCycle(Head(found)))
       => /\ mainPc \in {"workspaces", "failed"}
          /\ mainPc = "failed" =>
                /\ resolved.err = "circular dependency"
                /\ mainErr.kind = "circular dependency"
    /\ \A f \in Frames : ~HasCycle(<<frames[f].ws, frames[f].task>>)
    /\ \A wt \in DOMAIN config :
          HasCycle(wt) => TaskKey(wt[1], wt[2]) \notin Range(startOrder)

\* C10 witness: the run has failed with the circular-dependency error for a
\* target that leads to a cycle it is not itself part of, and no RunTask
\* call was made.
C10_Witness ==
    /\ mainPc = "failed"
    /\ mainErr.kind = "circular dependency"
    /\ HasCycle(Head(found))
    /\ Head(found) \notin Closure(DependsOnTasks(Head(found)))
    /\ frames = <<>>

(***************************************************************************)
(* The runner specification extended with every configuration of           *)
(* InitResolve that has a cycle reachable from its target.                 *)
(***************************************************************************)
InitCycle ==
    \/ Init
    \/ /\ InitResolve
       /\ HasCycle(parseTaskSpec(args[1]))

SpecCycle == InitCycle /\ [][Next]_vars


(***************************************************************************)
(* Determinism of the plan.                                                *)
(***************************************************************************)
\* the tasks that are ready after the first n entries of the plan: not yet
\* emitted, with every declared dependency emitted
ReadyAfter(plan, n, target) ==
    LET emitted == {plan[j] : j \in 1..n} IN
    {x \in Discovered(target) \cap DOMAIN config :
        /\ TaskKey(x[1], x[2]) \notin emitted
        /\ \A d \in DependsOnTasks(x) : TaskKey(d[1], d[2]) \in emitted}

\* the plan topologicalSort returns when the iteration over the indegrees map
\* yields the tasks of indegree 0 in the order q
PlanFromOrder(target, q) ==
    LET g == buildDependencyGraph(target[1], target[2]) IN
    SortLoop(g.graph, q, g.indegrees, <<>>).result

\* the tasks of indegree 0 of the target's dependency graph
InitiallyReady(target) ==
    LET g == buildDependencyGraph(target[1], target[2]) IN
    {task \in DOMAIN g.indegrees : g.indegrees[task] = 0}

nX == <<120>>

\* the dependency strings of RefPool, an unknown bare name, an unknown task
\* of the other workspace, an unknown workspace, and a string with two
\* separators
RefPoolAny(ws) ==
    RefPool(ws)
    \cup {nC, TaskKey(nX, nA), TaskKey(TaskKey(nW, nA), nB)}
    \cup {TaskKey(other, nC) : other \in {nW, nV} \ {ws}}

DependsOnListsAny(ws, n) == [1..n -> RefPoolAny(ws)]

InitRefs ==
    /\ \E l1 \in 0..MaxRefs : \E l2 \in 0..(MaxRefs - l1) :
       \E l3 \in 0..(MaxRefs - l1 - l2) : \E l4 \in 0..(MaxRefs - l1 - l2 - l3) :
       \E d1 \in DependsOnListsAny(nW, l1) : \E d2 \in DependsOnListsAny(nW, l2) :
       \E d3 \in DependsOnListsAny(nV, l3) : \E d4 \in DependsOnListsAny(nV, l4) :
          config = ResolveTasks(d1, d2, d3, d4)
    /\ args \in {<<TaskKey(nW, nA)>>, <<TaskKey(nW, nC)>>, <<TaskKey(nX, nA)>>}
    /\ flags = [forceBuild |-> FALSE, skipCache |-> FALSE, dryRun |-> FALSE]
    /\ cacheStore = {}
    /\ pre = <<>>
    /\ InitRun

SpecRefs == InitRefs /\ [][NextResolve]_vars

\* the positions of the separator in a dependency string
ColonPositions(s) == {i \in 1..Len(s) : s[i] = COLON}

\* a dependency string with more than one separator
Malformed(dep) == Cardinality(ColonPositions(dep)) > 1

\* the task a dependency string with at most one separator names when a task
\* of workspace ws lists it
NamedTask(dep, ws) ==
    IF ColonPositions(dep) = {} THEN <<ws, dep>>
    ELSE LET i == CHOOSE j \in ColonPositions(dep) : TRUE
         IN <<SubSeq(dep, 1, i - 1), SubSeq(dep, i + 1, Len(dep))>>

\* the dependency strings of a configured task
RefsOf(wt) == Range(config[wt].DependsOn)

RECURSIVE ReachableTasks(_)
\* the tasks named, directly or transitively, by the tasks S, existing or not
ReachableTasks(S) ==
    LET n == S \cup UNION {{NamedTask(dep, x[1]) :
                               dep \in {r \in RefsOf(x) : ~Malformed(r)}} :
                           x \in S \cap DOMAIN config}
    IN IF n = S THEN S ELSE ReachableTasks(n)

\* a task reachable from the target lists a malformed dependency string
MalformedReachable(target) ==
    \E x \in ReachableTasks({target}) \cap DOMAIN config :
        \E dep \in RefsOf(x) : Malformed(dep)

\* the target or a task named in its reachable subgraph does not exist
UnknownReachable(target) == ReachableTasks({target}) \ DOMAIN config # {}

\* C12: when the target, or a task named anywhere in the subgraph reachable
\* from it, does not exist, or a reachable task lists a dependency string
\* with more than one separator, ResolveDependencies returns an error and no
\* plan, and runner.RunTask is not called; an invalid-format error is only
\* given for a malformed string and a not-found error only for an unknown
\* task; a plan that is returned holds exactly the tasks named with bare
\* names taken in the referencing task's workspace and "ws:name" in ws.
C12_BadReferenceFails ==
    ResolutionDone
    => LET target == Head(found) IN
       /\ (UnknownReachable(target) \/ MalformedReachable(target))
          => /\ resolved.err \in {"task not found", "dependency not found",
                                  "invalid dependency format"}
             /\ resolved.result = <<>>
             /\ mainPc = "failed"
             /\ frames = <<>>
       /\ resolved.err = "invalid dependency format" => MalformedReachable(target)
       /\ resolved.err \in {"task not found", "dependency not found"}
          => UnknownReachable(target)
       /\ resolved.err = "nil"
          => Range(resolved.result)
             = {TaskKey(x[1], x[2]) : x \in ReachableTasks({target})}

\* C12 witness: the target w:a depends on b, which lists the bare name c;
\* c is looked up in workspace w, where it does not exist, and the
\* resolution has failed with the dependency-not-found error.
C12_Witness ==
    /\ mainPc = "failed"
    /\ Head(found) = <<nW, nA>>
    /\ config[<<nW, nA>>].DependsOn = <<nB>>
    /\ config[<<nW, nB>>].DependsOn = <<nC>>
    /\ resolved.err = "dependency not found"
    /\ resolved.result = <<>>


(***************************************************************************)
(* Side effects and resolution errors.                                     *)
(***************************************************************************)
\* runTask has returned the error of a failed resolution: ResolveDependencies
\* failed for a task spec, or the spec names a task no workspace has
ResolutionFailed ==
    /\ mainPc = "failed"
    /\ \/ resolved.err # "nil"
       \/ mainErr.kind = "task not found in any workspace"

\* C13: when the run has failed with a resolution error, nothing has been
\* done in that run before: no task command was handed to the Executor, no
\* pre-run command was executed, and no task state was written to the cache.
C13_NoSideEffectBeforeError ==
    ResolutionFailed
    => /\ startOrder = <<>>
       /\ preRun = <<>>
       /\ \A f \in Frames : frames[f].stored = <<>>


(***************************************************************************)
(* The change tracker (internal/deps).  Paths are byte strings; a file is  *)
(* absent, a directory, or a regular file with its content.  Modification  *)
(* times are recorded by the tracker but never compared, and are left out. *)
(* A *TaskState argument is <<>> for nil and <<state>> otherwise.          *)
(***************************************************************************)
Absent == [kind |-> "absent", content |-> <<>>]

Dir == [kind |-> "dir", content |-> <<>>]

RegularFile(content) == [kind |-> "file", content |-> content]

SLASH == 47

STAR == 42

\* Tracker.basePath, "/r", and TaskExecution.AbsPath of workspace w, "/r/w"
basePath == <<SLASH, 114>>

\* filepath.Join(dir, rel) for clean operands
Join(dir, rel) == dir \o <<SLASH>> \o rel

AbsPath == Join(basePath, nW)

\* faulty variant of Rel: the path is recorded as it is
RelUnchanged(base, target) == target

\* filepath.Rel(base, target) for a target below base; the code falls back
\* to the target itself when Rel fails
Rel(base, target) ==
    IF Len(target) > Len(base) + 1
       /\ SubSeq(target, 1, Len(base) + 1) = base \o <<SLASH>>
    THEN SubSeq(target, Len(base) + 2, Len(target))
    ELSE target

RECURSIVE Match(_, _)
\* doublestar: the pattern matches the whole path; '*' matches any run of
\* characters other than the separator
Match(pattern, name) ==
    IF pattern = <<>> THEN name = <<>>
    ELSE IF Head(pattern) = STAR
    THEN \/ Match(Tail(pattern), name)
         \/ name # <<>> /\ Head(name) # SLASH /\ Match(pattern, Tail(name))
    ELSE name # <<>> /\ Head(name) = Head(pattern)
         /\ Match(Tail(pattern), Tail(name))

\* a regular file (os.Stat succeeds and Mode().IsRegular())
IsRegular(fs, path) == path \in DOMAIN fs /\ fs[path].kind = "file"

\* resolveGlobPattern and globFiles: the regular files the pattern, joined
\* with the workspace path, matches
resolveGlobPattern(fs, pattern) ==
    SortStrings(SetToSeq({path \in DOMAIN fs :
                             /\ Match(Join(AbsPath, pattern), path)
                             /\ IsRegular(fs, path)}))

\* computeFileHash: SHA-256 of the content, taken to be free of collisions
computeFileHash(content) == [sha256 |-> content]

\* computeFileInfo
computeFileInfo(fs, path) ==
    [Path |-> Rel(basePath, path), Hash |-> computeFileHash(fs[path].content),
     Size |-> Len(fs[path].content)]

RECURSIVE InsertByPath(_, _)
InsertByPath(x, q) ==
    IF q = <<>> THEN <<x>>
    ELSE IF StrLess(x.Path, Head(q).Path) THEN <<x>> \o q
    ELSE <<Head(q)>> \o InsertByPath(x, Tail(q))

RECURSIVE SortByPath(_)
\* sort.Slice(fileInfos, Path less): entries of one path are entries of one
\* file and equal, so the order among them does not show
SortByPath(q) ==
    IF q = <<>> THEN <<>> ELSE InsertByPath(Head(q), SortByPath(Tail(q)))

RECURSIVE CollectFileInfos(_, _, _)
\* the loops of computeInputHashes and computeOutputHashes over the patterns
\* (from index i) and their matches, before the sort
CollectFileInfos(fs, patterns, i) ==
    IF i > Len(patterns) THEN <<>>
    ELSE LET matches == resolveGlobPattern(fs, patterns[i]) IN
         [j \in 1..Len(matches) |-> computeFileInfo(fs, matches[j])]
         \o CollectFileInfos(fs, patterns, i + 1)

\* computeInputHashes without an error
computeInputHashes(fs, task) == SortByPath(CollectFileInfos(fs, task.Inputs, 1))

\* computeOutputHashes
computeOutputHashes(fs, task) == SortByPath(CollectFileInfos(fs, task.Outputs, 1))

\* ComputeTaskState without an error (LastRun is not modelled)
ComputeTaskState(fs, task, taskKey, success) ==
    [TaskKey |-> taskKey,
     InputHashes |-> computeInputHashes(fs, task),
     Outputs |-> computeOutputHashes(fs, task),
     Success |-> success]

\* faulty variant of inputsMatch: only the paths are compared
inputsMatchPathsOnly(current, previous) ==
    /\ Len(current) = Len(previous)
    /\ \A i \in 1..Len(current) : current[i].Path = previous[i].Path

\* inputsMatch
inputsMatch(current, previous) ==
    /\ Len(current) = Len(previous)
    /\ \A i \in 1..Len(current) :
          current[i].Path = previous[i].Path /\ current[i].Hash = previous[i].Hash

\* faulty variant of outputsExist: the recorded outputs are not looked at
outputsExistUnchecked(fs, outputs) == TRUE

\* outputsExist: os.Stat of every recorded output does not report "not exist"
outputsExist(fs, outputs) ==
    \A i \in 1..Len(outputs) :
        LET fullPath == Join(basePath, outputs[i].Path) IN
        fullPath \in DOMAIN fs /\ fs[fullPath].kind # "absent"

\* faulty variant of TrackerShouldRunTask: a recorded failure is not looked at
TrackerShouldRunTaskIgnoreFailure(fs, task, previousState, readable) ==
    IF previousState = <<>> THEN [shouldRun |-> TRUE, err |-> FALSE]
    ELSE IF ~readable THEN [shouldRun |-> TRUE, err |-> TRUE]
    ELSE IF ~inputsMatch(computeInputHashes(fs, task), previousState[1].InputHashes)
    THEN [shouldRun |-> TRUE, err |-> FALSE]
    ELSE IF ~outputsExist(fs, previousState[1].Outputs)
    THEN [shouldRun |-> TRUE, err |-> FALSE]
    ELSE [shouldRun |-> FALSE, err |-> FALSE]

\* Tracker.ShouldRunTask: the two results; readable is whether
\* computeInputHashes could hash every matched file
TrackerShouldRunTask(fs, task, previousState, readable) ==
    IF previousState = <<>> THEN [shouldRun |-> TRUE, err |-> FALSE]
    ELSE IF ~previousState[1].Success THEN [shouldRun |-> TRUE, err |-> FALSE]
    ELSE IF ~readable THEN [shouldRun |-> TRUE, err |-> TRUE]
    ELSE IF ~inputsMatch(computeInputHashes(fs, task), previousState[1].InputHashes)
    THEN [shouldRun |-> TRUE, err |-> FALSE]
    ELSE IF ~outputsExist(fs, previousState[1].Outputs)
    THEN [shouldRun |-> TRUE, err |-> FALSE]
    ELSE [shouldRun |-> FALSE, err |-> FALSE]

\* GetChangedInputs: the entry for one current input
ChangedEntry(curr, previous) ==
    LET same == {i \in 1..Len(previous) : previous[i].Path = curr.Path} IN
    IF same = {} THEN <<[tag |-> "new file", path |-> curr.Path]>>
    \* prevMap[curr.Path] is the last previous entry of that path
    ELSE LET prev == previous[CHOOSE i \in same : \A j \in same : j <= i] IN
         IF prev.Hash # curr.Hash
         THEN <<[tag |-> "modified", path |-> curr.Path]>>
         ELSE <<>>

RECURSIVE ChangedCurrent(_, _, _)
\* GetChangedInputs: the loop over the current inputs, from index i
ChangedCurrent(current, previous, i) ==
    IF i > Len(current) THEN <<>>
    ELSE ChangedEntry(current[i], previous) \o ChangedCurrent(current, previous, i + 1)

RECURSIVE ChangedDeleted(_, _, _)
\* GetChangedInputs: the loop over the previous inputs, from index i
ChangedDeleted(current, previous, i) ==
    IF i > Len(previous) THEN <<>>
    ELSE (IF \E j \in 1..Len(current) : current[j].Path = previous[i].Path
          THEN <<>>
          ELSE <<[tag |-> "deleted", path |-> previous[i].Path]>>)
         \o ChangedDeleted(current, previous, i + 1)

\* Tracker.GetChangedInputs without an error
GetChangedInputs(fs, task, previousState) ==
    IF previousState = <<>>
    THEN <<[tag |-> "no previous state", path |-> <<>>]>>
    ELSE LET current == computeInputHashes(fs, task) IN
         ChangedCurrent(current, previousState[1].InputHashes, 1)
         \o ChangedDeleted(current, previousState[1].InputHashes, 1)


(***************************************************************************)
(* The tracker on its own: one task of workspace w with input and output   *)
(* patterns, a directory whose files are written and removed between the   *)
(* calls, and a caller that keeps the TaskState of its last                *)
(* ComputeTaskState call (record.state, with the files as they were then   *)
(* in record.at) and passes it, or nil, to ShouldRunTask and               *)
(* GetChangedInputs.                                                       *)
(***************************************************************************)
nO == <<111>>

\* the files of the workspace directory
TrackedPaths == {Join(AbsPath, name) : name \in {nA, nB, nO}}

\* what a path can hold: a may be missing or a regular file with one of two
\* contents, b missing or a regular file, o missing, a regular file or a
\* directory
FileKinds(path) ==
    IF path = Join(AbsPath, nO) THEN {Absent, RegularFile(<<1>>), Dir}
    ELSE IF path = Join(AbsPath, nB) THEN {Absent, RegularFile(<<1>>)}
    ELSE {Absent, RegularFile(<<1>>), RegularFile(<<2>>)}

\* the input pattern lists: up to MaxPatterns of "a" and "*"
InputPatternLists == UNION {[1..n -> {nA, <<STAR>>}] : n \in 0..MaxPatterns}

\* a config.Task with inputs and outputs
TrackedTaskOf(inputs, outputs) ==
    [Command |-> Cmd, DependsOn |-> <<>>, Cache |-> TRUE, Parallel |-> "unset",
     Inputs |-> inputs, Outputs |-> outputs]

TrackedTask == config[<<nW, nA>>]

InitTrack ==
    /\ \E inputs \in InputPatternLists : \E outputs \in {<<>>, <<nO>>} :
          config = (<<nW, nA>> :> TrackedTaskOf(inputs, outputs))
    /\ files \in {fs \in [TrackedPaths -> {Absent, Dir, RegularFile(<<1>>),
                                           RegularFile(<<2>>)}] :
                     \A path \in TrackedPaths : fs[path] \in FileKinds(path)}
    /\ record = <<>>
    /\ last = NoCall
    /\ cacheDir = <<>>
    /\ now = 0
    /\ cacheCall = NoCacheCall
    /\ setKeys = {}
    /\ args = <<>>
    /\ flags = [forceBuild |-> FALSE, skipCache |-> FALSE, dryRun |-> FALSE]
    /\ pre = <<>>
    /\ mainPc = "pre"
    /\ preRun = <<>>
    /\ preRunExecuted = FALSE
    /\ preIdx = 0
    /\ argIdx = 1
    /\ found = <<>>
    /\ resolved = [err |-> "nil", result |-> <<>>]
    /\ mainErr = NoErr
    /\ states = <<>>
    /\ mu = 0
    /\ frames = <<>>
    /\ cacheStore = {}
    /\ startOrder = <<>>

\* the variables of the runner, which the tracker does not touch
runVars == <<config, args, flags, mainPc, argIdx, found, resolved, mainErr,
             states, mu, frames, cacheStore, startOrder, pre, preRun,
             preRunExecuted, preIdx, cacheDir, now, cacheCall, setKeys>>

\* the directory changes: a file is created or rewritten, or the output
\* path becomes a directory
WriteFile(path, content) ==
    /\ path \in DOMAIN files
    /\ content \in FileKinds(path) \ {Absent, files[path]}
    /\ files' = [files EXCEPT ![path] = content]
    /\ last' = NoCall
    /\ UNCHANGED <<record, runVars>>

\* the directory changes: a file or directory is removed
RemoveFile(path) ==
    /\ path \in DOMAIN files
    /\ files[path] # Absent
    /\ files' = [files EXCEPT ![path] = Absent]
    /\ last' = NoCall
    /\ UNCHANGED <<record, runVars>>

\* whether hashing can fail: computeFileHash needs a matched file to fail on
Readable == IF computeInputHashes(files, TrackedTask) = <<>> THEN {TRUE} ELSE BOOLEAN

\* the previous states the caller can pass: nil or the state it holds
PreviousStateArgs == IF record = <<>> THEN {<<>>} ELSE {<<>>, <<record[1].state>>}

\* a call of Tracker.ComputeTaskState(execution, success); the caller keeps
\* the state it returns
ComputeTaskStateCall(success) ==
    /\ files # <<>>
    /\ \E readable \in Readable :
          IF readable
          THEN /\ record' = <<[state |-> ComputeTaskState(files, TrackedTask,
                                                         TaskKey(nW, nA), success),
                               at |-> files]>>
               /\ last' = [NoCall EXCEPT !.op = "ComputeTaskState"]
          ELSE /\ last' = [NoCall EXCEPT !.op = "ComputeTaskState", !.err = TRUE]
               /\ UNCHANGED record
    /\ UNCHANGED <<files, runVars>>

\* a call of Tracker.ShouldRunTask(execution, previousState)
ShouldRunTaskCall(previousState) ==
    /\ files # <<>>
    /\ previousState \in PreviousStateArgs
    /\ \E readable \in Readable :
          LET r == TrackerShouldRunTask(files, TrackedTask, previousState, readable)
          IN last' = [NoCall EXCEPT !.op = "ShouldRunTask", !.prev = previousState,
                                    !.shouldRun = r.shouldRun, !.err = r.err]
    /\ UNCHANGED <<files, record, runVars>>

\* a call of Tracker.GetChangedInputs(execution, previousState)
GetChangedInputsCall(previousState) ==
    /\ files # <<>>
    /\ previousState \in PreviousStateArgs
    /\ \E readable \in Readable :
          IF readable \/ previousState = <<>>
          THEN last' = [NoCall EXCEPT
                           !.op = "GetChangedInputs", !.prev = previousState,
                           !.changed = GetChangedInputs(files, TrackedTask,
                                                        previousState)]
          ELSE last' = [NoCall EXCEPT !.op = "GetChangedInputs",
                                      !.prev = previousState, !.err = TRUE]
    /\ UNCHANGED <<files, record, runVars>>

NextTrack ==
    \/ \E path \in TrackedPaths :
          \E content \in {RegularFile(<<1>>), RegularFile(<<2>>), Dir} :
             WriteFile(path, content)
    \/ \E path \in TrackedPaths : RemoveFile(path)
    \/ \E success \in BOOLEAN : ComputeTaskStateCall(success)
    \/ \E previousState \in PreviousStateArgs : ShouldRunTaskCall(previousState)
    \/ \E previousState \in PreviousStateArgs : GetChangedInputsCall(previousState)

SpecTrack == InitTrack /\ [][NextTrack]_vars


(***************************************************************************)
(* Properties of the tracker.  What is an input file, what changed and     *)
(* what exists is read here from the files and the patterns.               *)
(***************************************************************************)
\* the path matches a declared input pattern of the tracked task
MatchesInput(path) ==
    \E i \in DOMAIN TrackedTask.Inputs :
        Match(Join(AbsPath, TrackedTask.Inputs[i]), path)

\* the path is a declared input file in the directory fs
InputFile(fs, path) == MatchesInput(path) /\ fs[path].kind = "file"

\* the last call was ShouldRunTask, resp. GetChangedInputs, and returned no
\* error
ShouldRunTaskReturned == last.op = "ShouldRunTask" /\ ~last.err

GetChangedInputsReturned == last.op = "GetChangedInputs" /\ ~last.err

\* the last call was passed the state the caller holds
PassedHeldState == record # <<>> /\ last.prev = <<record[1].state>>

\* nothing that matches an input pattern differs from when the held state
\* was computed
InputsUnchanged ==
    \A path \in DOMAIN files : MatchesInput(path) => files[path] = record[1].at[path]

\* the relative paths of a fingerprint list
PathsOf(infos) == {infos[i].Path : i \in 1..Len(infos)}

\* some output path recorded in the state does not exist
OutputMissing(state) ==
    \E i \in 1..Len(state.Outputs) :
        LET path == Join(basePath, state.Outputs[i].Path) IN
        path \notin DOMAIN files \/ files[path].kind = "absent"

\* the path matches a declared output pattern of the tracked task
MatchesOutput(path) ==
    \E i \in DOMAIN TrackedTask.Outputs :
        Match(Join(AbsPath, TrackedTask.Outputs[i]), path)

\* an output file that was there when the held state was computed has been
\* removed
OutputRemoved ==
    \E path \in DOMAIN files :
        /\ MatchesOutput(path)
        /\ record[1].at[path].kind = "file"
        /\ files[path].kind = "absent"

C15_Idempotent ==
    (/\ ShouldRunTaskReturned
     /\ PassedHeldState
     /\ record[1].state.Success
     /\ InputsUnchanged
     /\ ~OutputRemoved)
    => ~last.shouldRun

\* C15 witness: the held state records two inputs and an output; a file
\* that is no input was written after it was computed, and ShouldRunTask
\* returned false.
C15_Witness ==
    /\ ShouldRunTaskReturned
    /\ PassedHeldState
    /\ record[1].state.Success
    /\ InputsUnchanged
    /\ files # record[1].at
    /\ Len(record[1].state.InputHashes) = 2
    /\ Len(record[1].state.Outputs) = 1
    /\ ~last.shouldRun

\* exactly one file differs from when the held state was computed: the
\* declared input file at path, whose content was changed
OnlyModified(path) ==
    /\ record # <<>>
    /\ InputFile(files, path)
    /\ InputFile(record[1].at, path)
    /\ files[path].content # record[1].at[path].content
    /\ \A other \in DOMAIN files \ {path} : files[other] = record[1].at[other]

\* C16: when the content of exactly one declared input file has changed
\* since the held state was computed and nothing else has, ShouldRunTask
\* returns true for that state and GetChangedInputs returns exactly one
\* entry, tagged modified and naming that file.
C16_OneModified ==
    \A path \in DOMAIN files :
        (OnlyModified(path) /\ PassedHeldState)
        => /\ ShouldRunTaskReturned => last.shouldRun
           /\ GetChangedInputsReturned
              => last.changed = <<[tag |-> "modified",
                                   path |-> Rel(basePath, path)]>>

EntriesFor(path) == {i \in 1..Len(last.changed) : last.changed[i].path = path}

\* the digest a fingerprint list records for a path
DigestOf(infos, path) ==
    infos[CHOOSE i \in 1..Len(infos) : infos[i].Path = path].Hash

\* C18: GetChangedInputs with a previous state returns one entry for every
\* path that differs and none for any other: "new file" for a path only in
\* the current inputs, "modified" for a path in both with different
\* digests, "deleted" for a path only in the previous state, nothing for a
\* path in both with equal digests; with no previous state it returns the
\* one sentinel entry.
C18_ChangedInputs ==
    GetChangedInputsReturned
    => IF last.prev = <<>>
       THEN last.changed = <<[tag |-> "no previous state", path |-> <<>>]>>
       ELSE LET current == computeInputHashes(files, TrackedTask)
                previous == last.prev[1].InputHashes
                cur == PathsOf(current)
                prv == PathsOf(previous)
                tagOf(path) ==
                    IF path \notin prv THEN "new file"
                    ELSE IF path \notin cur THEN "deleted"
                    ELSE IF DigestOf(current, path) # DigestOf(previous, path)
                    THEN "modified"
                    ELSE "same"
            IN /\ \A i \in 1..Len(last.changed) : last.changed[i].path \in cur \cup prv
               /\ \A path \in cur \cup prv :
                     IF tagOf(path) = "same" THEN EntriesFor(path) = {}
                     ELSE /\ Cardinality(EntriesFor(path)) = 1
                          /\ \A i \in EntriesFor(path) : last.changed[i].tag = tagOf(path)


(***************************************************************************)
(* The decision of runExecution: cached, would run, or Executor.           *)
(***************************************************************************)
\* the frames whose runExecution has decided about a task with a command
DecidedFrames ==
    {f \in Frames : /\ frames[f].decision # "none"
                    /\ Len(GetTask(frames[f].ws, frames[f].task).Command) > 0}

\* frame f ended with success and without a call of Executor.Execute
EndedWithoutExecutor(f) ==
    /\ frames[f].decision \in {"cached", "dryrun"}
    /\ frames[f].err = NoErr

\* caching is on for the task of frame f and neither --force nor
\* --skip-cache is set
CacheConsulted(f) ==
    /\ GetTask(frames[f].ws, frames[f].task).Cache
    /\ ~flags.forceBuild
    /\ ~flags.skipCache

\* C19 as stated: a task with a command ends in success without an Executor
\* call only if caching is enabled for it, neither --force nor --skip-cache
\* is set and ShouldRunTask returned false for its cached state; with
\* --force or --skip-cache set, or caching disabled for the task, every
\* reached task with a command is handed to the Executor.
C19_SkipOnlyWhenCached ==
    \A f \in DecidedFrames :
       /\ EndedWithoutExecutor(f)
          => CacheConsulted(f) /\ frames[f].prev = "present"
       /\ ~CacheConsulted(f) => frames[f].decision = "executor"

\* C19, amended: the cached branch of runExecution (success, no Executor
\* call) is taken only if caching is enabled for the task, neither --force
\* nor --skip-cache is set and ShouldRunTask returned false for the state
\* read from the cache; with --force or --skip-cache set, or caching
\* disabled for the task, every reached task with a command is handed to
\* the Executor whatever the cache contains, unless --dry-run is set, in
\* which case it ends in success without an Executor call.
C19_SkipOnlyWhenCachedUnlessDryRun ==
    \A f \in DecidedFrames :
       /\ frames[f].decision = "cached"
          => /\ CacheConsulted(f)
             /\ frames[f].prev = "present"
             /\ frames[f].key \in cacheStore
             /\ frames[f].err = NoErr
       /\ ~CacheConsulted(f)
          => frames[f].decision = IF flags.dryRun THEN "dryrun" ELSE "executor"
       /\ frames[f].decision = "dryrun" => flags.dryRun /\ frames[f].err = NoErr
       /\ (flags.dryRun \/ \A g \in DecidedFrames : frames[g].decision = "cached")
          => startOrder = <<>>

\* one task was skipped for its cached state and a task without caching was
\* handed to the Executor in the same run
C19_Witness ==
    \E f, g \in DecidedFrames :
       /\ frames[f].decision = "cached"
       /\ frames[g].decision = "executor"
       /\ ~GetTask(frames[g].ws, frames[g].task).Cache
       /\ frames[g].key \in Range(startOrder)


(***************************************************************************)
(* The task state computed and stored after an execution.                  *)
(***************************************************************************)
\* the frames of cache-enabled tasks whose Executor.Execute call returned
ExecutedFrames ==
    {f \in Frames : /\ frames[f].decision = "executor"
                    /\ frames[f].pc # "executor"
                    /\ GetTask(frames[f].ws, frames[f].task).Cache}

\* C20: for a cache-enabled task every Executor invocation that completes,
\* with success or with failure, is followed by one ComputeTaskState call
\* with the matching success flag, and the state it produced is the one
\* handed to the cache (a cache write that fails is only a warning).
C20_StateAfterEveryExecution ==
    \A f \in ExecutedFrames :
       /\ frames[f].computed = <<frames[f].err = NoErr>>
       /\ frames[f].stored \in {<<>>, frames[f].computed}

(***************************************************************************)
(* Cache errors in runExecution.                                           *)
(***************************************************************************)
\* ComputeTaskState or cache.Set failed after the execution of frame f
StateNotStored(f) ==
    /\ f \in ExecutedFrames
    /\ frames[f].computed = <<TRUE>>
    /\ frames[f].stored = <<>>

ResultFrames == {f \in Frames : frames[f].result # <<>>}

\* the configured tasks that name the task key in depends_on
Dependents(taskKey) ==
    {wt \in DOMAIN config : taskKey \in DependencyKeys(wt)}

\* C22: the result of an executed task is success exactly when the Executor
\* reported exit code zero and no error; after a nonzero exit code and
\* after a process that could not be started alike, the result stored for
\* the task's key is that failure, and no task that depends on it is handed
\* to the Executor or reaches runExecution.
C22_SuccessIffExitZero ==
    \A f \in ResultFrames :
       LET r == frames[f].result[1]
           k == frames[f].key
       IN /\ frames[f].err = NoErr <=> (r.ExitCode = 0 /\ r.Error = "nil")
          /\ Returned(f)
             => /\ Exists(k) /\ states[k].done
                /\ states[k].err = frames[f].err
          /\ (r.ExitCode # 0 \/ r.Error # "nil") /\ Returned(f)
             => /\ Failed(k)
                /\ \A wt \in Dependents(k) :
                      /\ ExecCount(TaskKey(wt[1], wt[2])) = 0
                      /\ \A g \in Owners(TaskKey(wt[1], wt[2])) :
                            frames[g].pc \notin {"runExecution", "executor"}

\* the process of a task's command could not be started, and a task with a
\* command that depends on it has completed with a failure without being
\* executed
C22_Witness ==
    \E f \in ResultFrames :
       /\ frames[f].result[1].Error = "other"
       /\ Returned(f)
       /\ \E wt \in Dependents(frames[f].key) :
             /\ Len(config[wt].Command) > 0
             /\ Failed(TaskKey(wt[1], wt[2]))
             /\ ExecCount(TaskKey(wt[1], wt[2])) = 0

(***************************************************************************)
(* cache.Manager: one JSON file per task key in the cache directory.  The  *)
(* directory is readable and writable; the clock does not go back.         *)
(***************************************************************************)
\* how far the clock is followed
MaxTime == 3

\* the characters getCachePath removes from a file name:
\* : / \ * ? " < > |
RemovedChars == {COLON, SLASH, 92, STAR, 63, 34, 60, 62, 124}

\* ".json"
DotJson == <<46, 106, 115, 111, 110>>

\* Manager.cacheDir: <basePath>/.doctrus/cache, here "/r/c"
cacheDirPath == Join(basePath, <<99>>)

\* Manager.getCachePath
getCachePath(taskKey) ==
    Join(cacheDirPath,
         SelectSeq(taskKey \o DotJson, LAMBDA char : char \notin RemovedChars))

\* json.MarshalIndent of a *deps.TaskState: null for nil
MarshalState(state) ==
    IF state = <<>> THEN [null |-> TRUE]
    ELSE [null |-> FALSE, task_key |-> state[1].TaskKey,
          last_run |-> state[1].LastRun, success |-> state[1].Success]

\* json.Unmarshal into a *deps.TaskState
UnmarshalState(doc) ==
    IF doc.null THEN <<>>
    ELSE <<[TaskKey |-> doc.task_key, LastRun |-> doc.last_run,
            Success |-> doc.success]>>

\* json.MarshalIndent of a CacheEntry: the ttl field is omitted when zero
MarshalEntry(entry) ==
    IF entry.TTL = 0
    THEN [task_key |-> entry.TaskKey, state |-> MarshalState(entry.State),
          created_at |-> entry.CreatedAt]
    ELSE [task_key |-> entry.TaskKey, state |-> MarshalState(entry.State),
          created_at |-> entry.CreatedAt, ttl |-> entry.TTL]

\* json.Unmarshal into a CacheEntry: a field that is missing keeps its zero
UnmarshalEntry(doc) ==
    [TaskKey |-> doc.task_key, State |-> UnmarshalState(doc.state),
     CreatedAt |-> doc.created_at,
     TTL |-> IF "ttl" \in DOMAIN doc THEN doc.ttl ELSE 0]

\* faulty variant of Expired: the age alone decides, a TTL of zero included
ExpiredByAge(entry, t) == t - entry.CreatedAt > entry.TTL

\* Manager.Get: entry.TTL > 0 && time.Since(entry.CreatedAt) > entry.TTL
Expired(entry, t) == entry.TTL > 0 /\ t - entry.CreatedAt > entry.TTL

\* os.ReadFile: the content of a file of the cache directory, Absent when
\* there is none
ReadFile(dir, path) == IF path \in DOMAIN dir THEN dir[path] ELSE Absent

\* os.Remove of a file of the cache directory
Remove(dir, path) == [q \in DOMAIN dir \ {path} |-> dir[q]]

\* os.WriteFile of a file of the cache directory
WriteCacheFile(dir, path, data) ==
    [q \in DOMAIN dir \cup {path} |-> IF q = path THEN RegularFile(data) ELSE dir[q]]

\* Manager.Get: the state returned, whether the entry had expired, and the
\* cache directory afterwards
Get(dir, t, taskKey) ==
    LET cachePath == getCachePath(taskKey)
        data == ReadFile(dir, cachePath)
    IN IF data.kind = "absent"
       THEN [state |-> <<>>, expired |-> FALSE, dir |-> dir]
       ELSE LET entry == UnmarshalEntry(data.content)
            IN IF Expired(entry, t)
               THEN [state |-> <<>>, expired |-> TRUE, dir |-> Remove(dir, cachePath)]
               ELSE [state |-> entry.State, expired |-> FALSE, dir |-> dir]

\* Manager.Set: the cache directory afterwards
Set(dir, t, taskKey, state, ttl) ==
    WriteCacheFile(dir, getCachePath(taskKey),
                   MarshalEntry([TaskKey |-> taskKey, State |-> state,
                                 CreatedAt |-> t, TTL |-> ttl]))

\* Manager.Delete: the cache directory afterwards
Delete(dir, taskKey) == Remove(dir, getCachePath(taskKey))

\* Manager.Clear: every file of the cache directory is removed
Clear(dir) == [q \in {path \in DOMAIN dir : dir[path].kind = "dir"} |-> dir[q]]

RECURSIVE ReadDir(_)
\* os.ReadDir: the file paths of the cache directory, sorted by file name
ReadDir(paths) ==
    IF paths = {} THEN <<>>
    ELSE LET first == CHOOSE path \in paths :
                         \A q \in paths \ {path} : StrLess(path, q)
         IN <<first>> \o ReadDir(paths \ {first})

\* Manager.List: the CacheEntry of every file of the cache directory
List(dir) ==
    LET names == ReadDir({path \in DOMAIN dir : dir[path].kind # "dir"})
    IN [i \in 1..Len(names) |-> UnmarshalEntry(dir[names[i]].content)]

RECURSIVE CleanExpiredFrom(_, _, _, _)
\* the loop of CleanExpired over the listed entries, from index i
CleanExpiredFrom(dir, entries, t, i) ==
    IF i > Len(entries) THEN dir
    ELSE CleanExpiredFrom(IF Expired(entries[i], t)
                          THEN Delete(dir, entries[i].TaskKey)
                          ELSE dir,
                          entries, t, i + 1)

\* Manager.CleanExpired: the cache directory afterwards
CleanExpired(dir, t) == CleanExpiredFrom(dir, List(dir), t, 1)

\* strings.HasPrefix
HasPrefix(s, prefix) ==
    Len(prefix) <= Len(s) /\ SubSeq(s, 1, Len(prefix)) = prefix

\* faulty variant of InWorkspace: the colon after the name is not required
InWorkspaceByName(taskKey, workspaceName) == HasPrefix(taskKey, workspaceName)

\* InvalidateWorkspace: strings.HasPrefix(entry.TaskKey, workspaceName+":")
InWorkspace(taskKey, workspaceName) ==
    HasPrefix(taskKey, workspaceName \o <<COLON>>)

RECURSIVE InvalidateWorkspaceFrom(_, _, _, _)
\* the loop of InvalidateWorkspace over the listed entries, from index i
InvalidateWorkspaceFrom(dir, entries, workspaceName, i) ==
    IF i > Len(entries) THEN dir
    ELSE InvalidateWorkspaceFrom(IF InWorkspace(entries[i].TaskKey, workspaceName)
                                 THEN Delete(dir, entries[i].TaskKey)
                                 ELSE dir,
                                 entries, workspaceName, i + 1)

\* Manager.InvalidateWorkspace: the cache directory afterwards
InvalidateWorkspace(dir, workspaceName) ==
    InvalidateWorkspaceFrom(dir, List(dir), workspaceName, 1)

\* the workspace names InvalidateWorkspace is called with: those of the
\* task keys, "a", "ab" and "w"
CacheWorkspaces == {nA, nA \o nB, nW}

\* the task keys the cache is used with: "a:bc", "ab:c" and "w:a"
CacheKeys == {TaskKey(nA, nB \o nC), TaskKey(nA \o nB, nC), TaskKey(nW, nA)}

\* a time-to-live, in ticks of the clock
TTL == 1

\* the ttl arguments of Set: none, or a time-to-live
TTLChoices == {0, TTL}

\* the variables the cache.Manager does not touch
nonCacheVars == <<config, args, flags, mainPc, argIdx, found, resolved, mainErr,
                  states, mu, frames, cacheStore, startOrder, pre, preRun,
                  preRunExecuted, preIdx, files, record, last>>

InitCache ==
    /\ config = (<<nW, nA>> :> TrackedTaskOf(<<>>, <<>>))
    /\ cacheDir = <<>>
    /\ now = 0
    /\ cacheCall = NoCacheCall
    /\ setKeys = {}
    /\ files = <<>>
    /\ record = <<>>
    /\ last = NoCall
    /\ args = <<>>
    /\ flags = [forceBuild |-> FALSE, skipCache |-> FALSE, dryRun |-> FALSE]
    /\ pre = <<>>
    /\ mainPc = "pre"
    /\ preRun = <<>>
    /\ preRunExecuted = FALSE
    /\ preIdx = 0
    /\ argIdx = 1
    /\ found = <<>>
    /\ resolved = [err |-> "nil", result |-> <<>>]
    /\ mainErr = NoErr
    /\ states = <<>>
    /\ mu = 0
    /\ frames = <<>>
    /\ cacheStore = {}
    /\ startOrder = <<>>

\* a call of Manager.Set(taskKey, state, ttl) with the state of a run that
\* has just ended
SetCall(taskKey, success, ttl) ==
    LET state == <<[TaskKey |-> taskKey, LastRun |-> now, Success |-> success]>>
    IN /\ cacheDir' = Set(cacheDir, now, taskKey, state, ttl)
       /\ cacheCall' = [NoCacheCall EXCEPT !.op = "Set", !.key = taskKey,
                                           !.state = state, !.ttl = ttl]
       /\ setKeys' = setKeys \cup {taskKey}
       /\ UNCHANGED <<now, nonCacheVars>>

\* a call of Manager.Get(taskKey)
GetCall(taskKey) ==
    LET r == Get(cacheDir, now, taskKey)
    IN /\ cacheDir' = r.dir
       /\ cacheCall' = [NoCacheCall EXCEPT !.op = "Get", !.key = taskKey,
                                           !.state = r.state,
                                           !.expired = r.expired]
       /\ UNCHANGED <<now, setKeys, nonCacheVars>>

\* a call of Manager.Delete(taskKey)
DeleteCall(taskKey) ==
    /\ cacheDir' = Delete(cacheDir, taskKey)
    /\ cacheCall' = [NoCacheCall EXCEPT !.op = "Delete", !.key = taskKey]
    /\ UNCHANGED <<now, setKeys, nonCacheVars>>

\* a call of Manager.Clear()
ClearCall ==
    /\ cacheDir' = Clear(cacheDir)
    /\ cacheCall' = [NoCacheCall EXCEPT !.op = "Clear"]
    /\ UNCHANGED <<now, setKeys, nonCacheVars>>

\* a call of Manager.CleanExpired()
CleanExpiredCall ==
    /\ cacheDir' = CleanExpired(cacheDir, now)
    /\ cacheCall' = [NoCacheCall EXCEPT !.op = "CleanExpired"]
    /\ UNCHANGED <<now, setKeys, nonCacheVars>>

\* a call of Manager.InvalidateWorkspace(workspaceName)
InvalidateWorkspaceCall(workspaceName) ==
    /\ cacheDir' = InvalidateWorkspace(cacheDir, workspaceName)
    /\ cacheCall' = [NoCacheCall EXCEPT !.op = "InvalidateWorkspace",
                                        !.key = workspaceName]
    /\ UNCHANGED <<now, setKeys, nonCacheVars>>

\* time passes
Tick ==
    /\ now < MaxTime
    /\ now' = now + 1
    /\ cacheCall' = NoCacheCall
    /\ UNCHANGED <<cacheDir, setKeys, nonCacheVars>>

NextCache ==
    \/ \E taskKey \in CacheKeys : \E success \in BOOLEAN : \E ttl \in TTLChoices :
          SetCall(taskKey, success, ttl)
    \/ \E taskKey \in CacheKeys : GetCall(taskKey)
    \/ \E taskKey \in CacheKeys : DeleteCall(taskKey)
    \/ ClearCall
    \/ CleanExpiredCall
    \/ \E workspaceName \in CacheWorkspaces : InvalidateWorkspaceCall(workspaceName)
    \/ Tick

SpecCache == InitCache /\ [][NextCache]_vars

(***************************************************************************)
(* Properties of the cache.Manager.                                        *)
(***************************************************************************)
\* the CacheEntry in the file of a task key: <<>> when there is no file
EntryAt(dir, taskKey) ==
    LET data == ReadFile(dir, getCachePath(taskKey))
    IN IF data.kind = "absent" THEN <<>> ELSE <<UnmarshalEntry(data.content)>>

\* a Set step leaves, as the entry of its key, the state and the ttl it was
\* given, created now
SetStoresEntry ==
    cacheCall'.op = "Set"
    => EntryAt(cacheDir', cacheCall'.key)
         = <<[TaskKey |-> cacheCall'.key, State |-> cacheCall'.state,
              CreatedAt |-> now, TTL |-> cacheCall'.ttl]>>

\* a Get step returns the state of an entry without time-to-live, and of one
\* not older than its time-to-live, and leaves the entry; it returns nil for
\* an entry older than its time-to-live and removes it; it returns nil when
\* there is no entry
GetHonoursTTL ==
    cacheCall'.op = "Get"
    => LET e == EntryAt(cacheDir, cacheCall'.key)
       IN IF e = <<>>
          THEN cacheCall'.state = <<>> /\ cacheDir' = cacheDir
          ELSE IF e[1].TTL = 0 \/ now - e[1].CreatedAt <= e[1].TTL
          THEN cacheCall'.state = e[1].State /\ cacheDir' = cacheDir
          ELSE /\ cacheCall'.state = <<>>
               /\ EntryAt(cacheDir', cacheCall'.key) = <<>>

\* C23: Get on an entry stored with TTL = 0 returns the stored state however
\* much time has passed (time alone changes no entry); Get on an entry with
\* TTL > 0 whose age exceeds the TTL returns nil without error and deletes
\* the record, so that every later Get finds no entry and returns nil until
\* the next Set stores one.
C23_TimeToLive ==
    [][/\ SetStoresEntry
       /\ GetHonoursTTL
       /\ cacheCall'.op = "none" => cacheDir' = cacheDir]_vars

\* a Get found an entry older than its time-to-live and removed it
C23_Witness ==
    /\ cacheCall.op = "Get"
    /\ cacheCall.expired
    /\ cacheCall.state = <<>>
    /\ EntryAt(cacheDir, cacheCall.key) = <<>>
    /\ now > TTL

\* C24: the cache keeps one record per task key: a Set or a Delete on one
\* key never changes what Get returns for a different key, and Get for a key
\* only ever returns a state that was stored under that key.
C24_OneRecordPerKey ==
    [][/\ cacheCall'.op \in {"Set", "Delete"}
          => \A k2 \in CacheKeys \ {cacheCall'.key} :
                Get(cacheDir', now', k2).state = Get(cacheDir, now, k2).state
       /\ (cacheCall'.op = "Get" /\ cacheCall'.state # <<>>)
          => cacheCall'.state[1].TaskKey = cacheCall'.key]_vars

(***************************************************************************)
(* The order of execution and the resolved execution order.                *)
(***************************************************************************)
\* the task of a task key has a command
HasCommand(taskKey) == Len(config[parseTaskSpec(taskKey)].Command) > 0

\* a run of one task spec in one workspace has finished, no task of the
\* configuration fans its dependencies out, and the command of every task
\* of the resolved plan was handed to the Executor
SequentialRunOfAll ==
    /\ mainPc = "finished"
    /\ Len(args) = 1
    /\ Cardinality({f \in Frames : frames[f].parent = 0}) = 1
    /\ \A wt \in DOMAIN config : ~isParallelCompound(config[wt])
    /\ resolved.err = "nil"
    /\ \A i \in 1..Len(resolved.result) :
          HasCommand(resolved.result[i]) => resolved.result[i] \in Range(startOrder)

\* C25: for a run with no parallel task in which every task executes, the
\* order in which task commands are handed to the Executor is the plan that
\* ResolveDependencies returned for the target.
C25_RunOrderIsPlan ==
    SequentialRunOfAll
    => startOrder = SelectSeq(resolved.result, HasCommand)

(***************************************************************************)
(* Termination of the runner.  Runs with parallel compound tasks whose     *)
(* dependencies share a dependency; every goroutine that can take a step   *)
(* is scheduled at some time, and Executor.Execute returns.                *)
(***************************************************************************)
InitLive ==
    /\ \E c \in {Diamond(<<>>, "true"), Nested} \cup {FanOut(n) : n \in 2..MaxCallers} :
          /\ config = c.tasks
          /\ args = c.args
    /\ cacheStore = {}
    /\ flags = [forceBuild |-> FALSE, skipCache |-> FALSE, dryRun |-> FALSE]
    /\ pre = <<>>
    /\ InitRun

\* the steps of the goroutines and of runTask other than runTaskInWorkspace
Scheduled ==
    \/ ensurePreRunCommands
    \/ runSingleTask
    \/ runTaskReturned
    \/ \E f \in Frames : RunTaskLock(f)
    \/ \E f \in Frames : RunTaskWait(f)
    \/ \E f \in Frames : RunTaskWake(f)
    \/ \E f \in Frames : RunTaskStored(f)
    \/ \E f \in Frames : RunTaskClaim(f)
    \/ \E f \in Frames : RunTaskRelock(f)
    \/ \E f \in Frames : RunTaskStore(f)
    \/ \E f \in Frames : execute(f)
    \/ \E f \in Frames : executeCallDependency(f)
    \/ \E f \in Frames : executeDependencyReturned(f)
    \/ \E f \in Frames : runDependenciesParallelGo(f)
    \/ \E f \in Frames : GoroutineExit(f)
    \/ \E f \in Frames : runDependenciesParallelJoin(f)
    \/ \E f \in Frames : runExecution(f)
    \/ \E f \in Frames : runExecutionResult(f)

\* weak fairness of runTaskInWorkspace, which can take a step exactly when
\* runTask is at its call
FairResolution ==
    []<>(mainPc # "workspaces") \/ []<><<runTaskInWorkspace>>_vars

SpecLive == InitLive /\ [][Next]_vars /\ WF_vars(Scheduled) /\ FairResolution

\* C26: with an acyclic dependency graph and an Executor that returns,
\* under every interleaving the run comes to its end with every RunTask
\* call returned: no caller stays waiting on a running key, no caller stays
\* woken without the mutex, and no goroutine is left behind.
C26_EveryCallReturns ==
    <>[](/\ mainPc \in {"finished", "failed"}
         /\ \A f \in Frames : Returned(f))

\* the owner of a key has completed and two other callers that were waiting
\* on the key have both been woken
C26_Witness ==
    \E f, g, h \in Frames :
       /\ f # g
       /\ frames[f].key = frames[h].key /\ frames[g].key = frames[h].key
       /\ frames[f].pc = "woken" /\ frames[g].pc = "woken"
       /\ frames[h].owner /\ frames[h].pc = "done"

(***************************************************************************)
(* The runner's mutex.                                                     *)
(***************************************************************************)
\* C27: the mutex is held by a RunTask call only between its Lock and the
\* claim, the return of the stored result or the Wait, and between the Lock
\* after execute and the return: never while execute, a dependency or the
\* Executor runs.  So while a command is in progress the mutex is free or on
\* its way to be freed, and a call for another key that has the mutex and
\* finds no state for its key can claim it.
C27_MutexNotHeldWhileExecuting ==
    /\ mu \in Frames \cup {0}
    /\ \A f \in Frames :
          /\ mu = f => frames[f].pc \in {"check", "store"}
          /\ frames[f].pc \in {"check", "store"} => mu = f
    /\ \A f, g \in Frames :
          (/\ frames[f].pc = "executor"
           /\ frames[g].key # frames[f].key
           /\ frames[g].pc = "check"
           /\ ~Exists(frames[g].key))
          => ENABLED RunTaskClaim(g)

\* the commands of two tasks are in progress at the same time
C27_Witness ==
    \E f, g \in Frames :
       /\ frames[f].key # frames[g].key
       /\ frames[f].pc = "executor"
       /\ frames[g].pc = "executor"
       /\ mu = 0

(***************************************************************************)
(* The error of a dependency cycle.                                        *)
(***************************************************************************)
\* the task keys that the error of topologicalSort's cycle check carries:
\* the error is the fixed text "circular dependency detected in dependency
\* graph", made without an operand
CyclePath(err) == <<>>

\* the task of key k names the task of key d in depends_on
DependsOnKey(k, d) ==
    /\ parseTaskSpec(k) \in DOMAIN config
    /\ d \in DependencyKeys(parseTaskSpec(k))

\* C28: the error returned for a dependency cycle carries a cycle path: a
\* non-empty sequence of task keys reachable from the target in which every
\* task depends on the next one and the last on the first.
C28_CycleErrorCarriesPath ==
    (found # <<>> /\ resolved.err = "circular dependency")
    => LET path == CyclePath(resolved.err)
           succ(i) == IF i = Len(path) THEN 1 ELSE i + 1
       IN /\ Len(path) > 0
          /\ \A i \in 1..Len(path) :
                /\ parseTaskSpec(path[i]) \in Discovered(Head(found))
                /\ DependsOnKey(path[i], path[succ(i)])

(***************************************************************************)
(* Which tasks fan their dependencies out.                                 *)
(***************************************************************************)
\* the RunTask calls made by execute of frame f for its dependencies
Children(f) == {c \in Frames : frames[c].parent = f}

\* C29: the dependencies of a task are run in goroutines of their own only
\* if the task has no command and parallel = true; the dependencies of a
\* task that has a command, or whose parallel flag is unset or false, are
\* run one after the other: each RunTask call is made after the one before
\* it has returned.
C29_FanOutOnlyParallelCompound ==
    \A f \in Frames :
       LET task == GetTask(frames[f].ws, frames[f].task)
           fanOut == Len(task.Command) = 0 /\ task.Parallel = "true"
       IN /\ \A c \in Children(f) : frames[c].async <=> fanOut
          /\ frames[f].pc \in {"spawn", "wgwait"} => fanOut
          /\ ~fanOut
             => \A c, d \in Children(f) : c < d => Returned(c)

\* two dependencies of a parallel compound task are in progress at once,
\* one of them a compound task with parallel = false that is running its
\* own dependencies one by one
C29_Witness ==
    \E f, c, d \in Frames :
       /\ c \in Children(f) /\ d \in Children(f) /\ c # d
       /\ frames[c].async /\ frames[d].async
       /\ ~Returned(c) /\ frames[d].pc = "executor"
       /\ GetTask(frames[c].ws, frames[c].task).Parallel = "false"
       /\ \E e \in Children(c) : ~frames[e].async /\ frames[e].pc = "executor"

(***************************************************************************)
(* --dry-run.                                                              *)
(***************************************************************************)
\* the tasks the walks of the run visit: the targets of the task specs and
\* what they lead to
Walked ==
    UNION {Discovered(<<frames[f].ws, frames[f].task>>) :
              f \in {g \in Frames : frames[g].parent = 0}}

\* ShouldRunTask returned an error for some task of the run
TrackerFailed == \E f \in Frames : frames[f].decision = "error"

PreRunFailed ==
    mainErr.kind \in {"pre-run command failed", "pre: command is required"}

\* no task has been started: no RunTask call was made and no command was
\* handed to the Executor
NoTaskStarted == frames = <<>> /\ startOrder = <<>>

\* C31: the pre-run commands are executed once per CLI, in declared order,
\* before any task is started; a failing pre-run command ends the run, no
\* later pre-run command and no task is started after it; once they have all
\* succeeded a later call of ensurePreRunCommands executes nothing.
C31_PreRunOnceInOrderFirst ==
    /\ [](/\ \A i \in DOMAIN preRun : preRun[i] = i
          /\ ~NoTaskStarted => preRunExecuted /\ Len(preRun) = Len(pre)
          /\ PreRunFailed => mainPc = "failed" /\ NoTaskStarted)
    /\ [][/\ PreRunFailed => preRun' = preRun /\ frames' = frames
          /\ preRunExecuted => preRun' = preRun /\ preRunExecuted']_vars

\* both commands have run and ensurePreRunCommands is called again
C31_Witness ==
    /\ mainPc = "pre"
    /\ preRunExecuted
    /\ preRun = <<1, 2>>

\* a run that the second pre-run command ended
C31_FailureWitness ==
    /\ PreRunFailed
    /\ preRun = <<1, 2>>

(***************************************************************************)
(* The input fingerprint list.                                             *)
(***************************************************************************)
\* the positions of the fingerprint list that hold the file
EntriesOf(infos, path) ==
    {i \in 1..Len(infos) : infos[i].Path = Rel(basePath, path)}

\* C32: the input fingerprint list of a computed TaskState is sorted by
\* relative path and holds each matching regular file exactly once, also
\* when more than one input pattern matches the file.
C32_SortedAndOncePerFile ==
    record # <<>>
    => LET infos == record[1].state.InputHashes
           fs == record[1].at
       IN /\ \A i, j \in 1..Len(infos) :
                i < j => ~StrLess(infos[j].Path, infos[i].Path)
          /\ \A path \in DOMAIN fs :
                InputFile(fs, path) => Cardinality(EntriesOf(infos, path)) = 1

(***************************************************************************)
(* The round trip through the cache.Manager.                               *)
(***************************************************************************)
\* what Get would return for the key after the step
GetAfter(taskKey) == Get(cacheDir', now', taskKey).state

\* C33: after Set(k, s, 0), Get(k) returns s, whatever an earlier Set had
\* stored for k; after Delete(k) and after Clear(), Get(k) returns nil; and
\* Get on a key that Set was never called with returns nil.  (No call of the
\* Manager returns an error while the directory is readable and writable.)
C33_RoundTrip ==
    [][/\ (cacheCall'.op = "Set" /\ cacheCall'.ttl = 0)
          => GetAfter(cacheCall'.key) = cacheCall'.state
       /\ cacheCall'.op = "Delete" => GetAfter(cacheCall'.key) = <<>>
       /\ cacheCall'.op = "Clear" => \A k \in CacheKeys : GetAfter(k) = <<>>
       /\ (cacheCall'.op = "Get" /\ cacheCall'.key \notin setKeys)
          => cacheCall'.state = <<>>]_vars

(***************************************************************************)
(* InvalidateWorkspace and CleanExpired.                                   *)
(***************************************************************************)
\* the record in a file of the cache directory
RecordIn(dir, path) == UnmarshalEntry(dir[path].content)

\* the cache directory without the files whose record satisfies Gone
Without(dir, Gone(_)) ==
    [path \in {q \in DOMAIN dir : ~Gone(RecordIn(dir, q))} |-> dir[path]]

\* Get returns the state of every record of the directory after the step
AllRetrievable ==
    \A path \in DOMAIN cacheDir' :
        LET e == RecordIn(cacheDir', path)
        IN Get(cacheDir', now', e.TaskKey).state = e.State

\* C34: InvalidateWorkspace(w) removes every record whose task key is of
\* workspace w and leaves the record of every other workspace unchanged, and
\* what Get returns for it; CleanExpired removes exactly the records with a
\* TTL > 0 that has elapsed, and leaves the others, those with TTL = 0
\* included, unchanged and retrievable.
C34_InvalidateAndClean ==
    [][/\ cacheCall'.op = "InvalidateWorkspace"
          => /\ cacheDir' = Without(cacheDir,
                   LAMBDA e : parseTaskSpec(e.TaskKey)[1] = cacheCall'.key)
             /\ \A path \in DOMAIN cacheDir' :
                   LET k == RecordIn(cacheDir', path).TaskKey
                   IN Get(cacheDir', now', k).state = Get(cacheDir, now, k).state
       /\ cacheCall'.op = "CleanExpired"
          => /\ cacheDir' = Without(cacheDir,
                   LAMBDA e : e.TTL > 0 /\ now - e.CreatedAt > e.TTL)
             /\ AllRetrievable]_vars

\* InvalidateWorkspace has removed the record of a task key of its
\* workspace and has left the record of another workspace
C34_Witness ==
    /\ cacheCall.op = "InvalidateWorkspace"
    /\ \E k \in setKeys :
          /\ parseTaskSpec(k)[1] = cacheCall.key
          /\ EntryAt(cacheDir, k) = <<>>
    /\ \E k \in setKeys : EntryAt(cacheDir, k) # <<>>

\* CleanExpired has removed a record after its TTL had elapsed and has left
\* one without TTL that is as old
C34_CleanWitness ==
    /\ cacheCall.op = "CleanExpired"
    /\ now > TTL
    /\ \E k \in setKeys : EntryAt(cacheDir, k) = <<>>
    /\ \E path \in DOMAIN cacheDir :
          /\ RecordIn(cacheDir, path).TTL = 0
          /\ RecordIn(cacheDir, path).CreatedAt = 0

(***************************************************************************)
(* The members of a plan.                                                  *)
(***************************************************************************)
\* the task keys of a set of tasks
KeysOf(tasks) == {TaskKey(x[1], x[2]) : x \in tasks}

\* C35: a plan ResolveDependencies returns holds the target and its
\* transitive dependencies and no other task, and its last element is the
\* target.
C35_PlanIsClosureTargetLast ==
    (ResolutionDone /\ resolved.err = "nil")
    => LET plan == resolved.result
           target == Head(found)
       IN /\ Range(plan) = KeysOf(Discovered(target))
          /\ plan # <<>>
          /\ plan[Len(plan)] = TaskKey(target[1], target[2])

\* a plan of three tasks, the target last, for a configuration whose fourth
\* task depends on the target and is not in the plan
C35_Witness ==
    /\ ResolutionDone
    /\ resolved.err = "nil"
    /\ Len(resolved.result) = 3
    /\ resolved.result[3] = TaskKey(Head(found)[1], Head(found)[2])
    /\ \E wt \in DOMAIN config :
          /\ Head(found) \in DependsOnTasks(wt)
          /\ TaskKey(wt[1], wt[2]) \notin Range(resolved.result)

(***************************************************************************)
(* A dependency listed more than once by one task.                         *)
(***************************************************************************)
\* the tasks that the task lists more than once in depends_on, whatever the
\* spelling (bare, or with the workspace)
RepeatedDependencies(wt) ==
    {d \in DependsOnTasks(wt) :
        Cardinality({i \in DOMAIN config[wt].DependsOn :
                        ParseDependency(config[wt].DependsOn[i], wt[1]) = d}) > 1}

\* how often the task key is in the plan
PlanCount(plan, taskKey) ==
    Cardinality({i \in 1..Len(plan) : plan[i] = taskKey})

\* C36: a dependency that one task lists more than once in depends_on is
\* once in the plan resolved for a target that reaches the task, the
\* resolution does not fail with the circular-dependency error unless there
\* is a cycle, and the dependency's command is handed to the Executor at most
\* once.
C36_RepeatedDependencyOnce ==
    \A wt \in DOMAIN config : \A d \in RepeatedDependencies(wt) :
       /\ ExecCount(TaskKey(d[1], d[2])) <= 1
       /\ found # <<>> /\ wt \in Discovered(Head(found))
          => /\ mainPc = "running"
                => PlanCount(resolved.result, TaskKey(d[1], d[2])) = 1
             /\ mainErr.kind = "circular dependency" => HasCycle(Head(found))

\* the run of a task that lists its dependency bare and with the workspace
\* has finished: the dependency was executed once
C36_Witness ==
    /\ mainPc = "finished"
    /\ \E wt \in DOMAIN config : \E d \in RepeatedDependencies(wt) :
          /\ nB \in Range(config[wt].DependsOn)
          /\ TaskKey(nW, nB) \in Range(config[wt].DependsOn)
          /\ PlanCount(resolved.result, TaskKey(d[1], d[2])) = 1
          /\ ExecCount(TaskKey(d[1], d[2])) = 1
          /\ Succeeded(TaskKey(wt[1], wt[2]))

(***************************************************************************)
(* The Completed keys and the plan.                                        *)
(***************************************************************************)
\* the task keys that have reached Completed in the state table
CompletedKeys == {k \in DOMAIN states : states[k].done}

\* runner.RunTask has returned nil to runTaskInWorkspace for Head(found)
TargetSucceeded ==
    /\ mainPc = "running"
    /\ frames[TopFrame].pc = "done"
    /\ frames[TopFrame].ret = NoErr

\* the targets of a task spec: the task in its workspace, or in every
\* workspace that has it
TargetsOf(taskSpec) ==
    LET spec == parseTaskSpec(taskSpec) IN
    IF spec[1] # <<>> THEN {spec}
    ELSE {<<workspaceName, spec[2]>> : workspaceName \in findTaskInWorkspaces(spec[2])}

\* the targets runTaskInWorkspace was called for before Head(found)
EarlierTargets ==
    UNION {TargetsOf(args[i]) : i \in 1..(argIdx - 1)}
    \cup (TargetsOf(args[argIdx]) \ Range(found))

\* the task keys of the plans resolved for the earlier targets
EarlierPlans ==
    UNION {Range(ResolveDependencies(t[1], t[2]).result) : t \in EarlierTargets}

\* C37 as stated: when the run of a target completes with success, the task
\* keys that have reached Completed are those of the plan resolved for the
\* target.
C37_CompletedIsPlan ==
    TargetSucceeded => CompletedKeys = Range(resolved.result)

\* C37, amended: when the run of a target completes with success, every task
\* key of the plan resolved for it has reached Completed, and the Completed
\* keys that are not in that plan are those of the plans of the targets the
\* same runner ran before (none for the first target of the command).
C37_CompletedIsPlanSoFar ==
    TargetSucceeded
    => /\ Range(resolved.result) \subseteq CompletedKeys
       /\ CompletedKeys = Range(resolved.result) \cup EarlierPlans

\* the second target of a command has completed with success, and a task of
\* the first target's plan that is not in its own plan is Completed
C37_Witness ==
    /\ TargetSucceeded
    /\ EarlierTargets # {}
    /\ Len(resolved.result) > 1
    /\ CompletedKeys \ Range(resolved.result) # {}

(***************************************************************************)
(* The cache record of a task whose execution fails.                       *)
(***************************************************************************)
\* the step is the return of Executor.Execute to frame f with a failure
ExecutionFails(f) ==
    /\ frames[f].pc = "executor"
    /\ frames'[f].result # <<>>
    /\ frames'[f].err # NoErr

\* C38: when the execution of a task fails, the cache record of its key is
\* left as it was: no TaskState is computed, nothing is stored and nothing
\* is removed, so that a record an earlier run stored is still there for
\* the next run.
C38_FailureLeavesRecord ==
    [][/\ \A f \in Frames :
             ExecutionFails(f)
             => /\ cacheStore' = cacheStore
                /\ frames'[f].computed = frames[f].computed
                /\ frames'[f].stored = frames[f].stored
       /\ cacheStore' # cacheStore
          => \E f \in Frames :
                /\ frames[f].pc = "executor"
                /\ frames'[f].err = NoErr
                /\ cacheStore' = cacheStore \cup {frames[f].key}]_vars

\* a cache-enabled task with a record of an earlier run was executed anyway
\* and failed; the record is there and nothing was stored
C38_Witness ==
    \E f \in Frames :
       /\ frames[f].result # <<>>
       /\ frames[f].err # NoErr
       /\ GetTask(frames[f].ws, frames[f].task).Cache
       /\ frames[f].key \in cacheStore
       /\ frames[f].stored = <<>>
       /\ Returned(f)

(***************************************************************************)
(* Several task specs in one command.                                      *)
(***************************************************************************)
\* the RunTask calls made by runTaskInWorkspace, in the order made
TopFrames == {f \in Frames : frames[f].parent = 0}

\* the number of those calls made before frame f
TopFramesBefore(f) == Cardinality({g \in TopFrames : g < f})

\* C39: the task specs of one command are processed in argument order on one
\* state table: the n-th RunTask call of runTaskInWorkspace is for the n-th
\* spec; no task is handed to the Executor more than once, also when more
\* than one spec reaches it; a call for a key with a stored failure returns
\* that failure; and once a spec has failed the run is over: no call is in
\* progress, no call is made and no task is started for a later spec.
C39_SpecsInOrderOnOneTable ==
    /\ [](Len(args) > 1
          => /\ \A f \in TopFrames :
                   /\ TopFramesBefore(f) < Len(args)
                   /\ frames[f].key = args[TopFramesBefore(f) + 1]
                   /\ TopFramesBefore(f) + 1 <= argIdx
             /\ \A k \in DOMAIN states : ExecCount(k) <= 1
             /\ \A f \in Frames :
                   (Returned(f) /\ Failed(frames[f].key))
                   => frames[f].ret = states[frames[f].key].err
             /\ mainErr # NoErr
                => /\ mainPc = "failed"
                   /\ \A f \in Frames : Returned(f))
    /\ [][(Len(args) > 1 /\ mainErr # NoErr)
          => frames' = frames /\ startOrder' = startOrder]_vars

\* the second spec's target depends on the first spec's target, which was
\* executed once in the run of the first spec; both runs have succeeded
C39_Witness ==
    /\ Len(args) = 2
    /\ mainPc = "finished"
    /\ Cardinality(TopFrames) = 2
    /\ parseTaskSpec(args[1]) \in DependsOnTasks(parseTaskSpec(args[2]))
    /\ ExecCount(args[1]) = 1
    /\ Succeeded(args[2])

\* the first spec has failed and the run is over without a call for the
\* second
C39_FailureWitness ==
    /\ Len(args) = 2
    /\ mainPc = "failed"
    /\ Failed(args[1])
    /\ Cardinality(TopFrames) = 1
    /\ ~Exists(args[2])

(***************************************************************************)
(* The state table of the runner.                                          *)
(***************************************************************************)
\* the step is frame f's return from RunTask with the error stored for a
\* key another call had claimed
ReadsStoredError(f) ==
    /\ frames[f].pc = "check"
    /\ frames'[f].pc = "done"
    /\ ~frames'[f].owner

\* C40: an entry of the state table, once created for a key, is never
\* removed and never replaced by a new one (it only passes, once, from
\* running to done); no entry is both running and done; done is set in one
\* step with the stored error, by the call that claimed the key while it
\* holds the mutex; and a call that waits for the key reads the stored error
\* only when running is false, holding the mutex.
C40_StateTable ==
    /\ [](\A k \in DOMAIN states :
             /\ ~(states[k].running /\ states[k].done)
             /\ states[k].running \/ states[k].done
             /\ states[k].done
                => \E f \in Owners(k) :
                      Returned(f) /\ states[k].err = frames[f].err)
    /\ [][/\ \A k \in DOMAIN states :
                /\ k \in DOMAIN states'
                /\ ~(states'[k].running /\ ~states[k].running)
                /\ states'[k] # states[k]
                   => \E f \in Owners(k) :
                         /\ frames[f].pc = "store" /\ mu = f
                         /\ states'[k] = [running |-> FALSE, done |-> TRUE,
                                          err |-> frames[f].err]
          /\ \A f \in Frames :
                ReadsStoredError(f)
                => /\ mu = f
                   /\ ~states[frames[f].key].running
                   /\ states[frames[f].key].done
                   /\ frames'[f].ret = states[frames[f].key].err]_vars

\* a call that waited for a key while its owner was executing has returned
\* the failure the owner stored
C40_Witness ==
    \E f \in Frames :
       /\ ~frames[f].owner
       /\ frames[f].pc = "done"
       /\ frames[f].ret # NoErr
       /\ frames[f].ret = states[frames[f].key].err
       /\ \E g \in Owners(frames[f].key) : g < f /\ frames[g].async

====
